---- MODULE Spec2Model ----
(***************************************************************************)
(* The quality-gated thumbnail pipeline: the /generate handler of app.py   *)
(* and run_one_prompt of batch_run.py, with the engine (engine.py) and the *)
(* validator (validator.py) they drive.                                    *)
(*                                                                         *)
(* The two orchestrators are the entry points of two programs (main.py     *)
(* serves /generate; streamlit_batch.py calls run_one_prompt); a behaviour *)
(* is a run of one of them.  The text, image, vision and text-recognition  *)
(* services are the environment: every answer they can give, an error      *)
(* included, is a nondeterministic choice of the step that calls them.     *)
(*                                                                         *)
(* Spec is the behaviour of the two orchestrators.  SpecDecompose,         *)
(* SpecBackground and SpecOverlay are the engine's methods called on their *)
(* own: decompose_prompt on prompts and answers given character by         *)
(* character, generate_background and overlay_text several times in a row  *)
(* in one working directory.  SpecAudit is the validator's                 *)
(* check_visual_integrity on answers given character by character.         *)
(* SpecAgree runs the two orchestrators side by side on the same outcomes  *)
(* of the checks, SpecLoop two /generate requests on one event loop, and   *)
(* SpecStdout run_one_prompt with the streams that sys.stdout is bound to. *)
(***************************************************************************)
EXTENDS Naturals, Sequences, FiniteSets, TLC

VARIABLES
    program,            \* "app" (main.py) or "batch" (streamlit_batch.py)
    pc,                 \* the statement the orchestrator is at
    prompt,             \* the request's prompt
    attempt,            \* the loop variable, 0-based
    plan,               \* decompose_prompt's return value of this attempt
    extra,              \* the constraint chosen for this attempt
    bg,                 \* generate_background's return value (a path)
    final_img,          \* overlay_text's return value (a path)
    is_text_ok, is_mobile_readable, is_contrast_ok, is_clean_geometry,
    _result,            \* first component of check_visual_integrity's result
    reasons,            \* the reasons list of the current attempt
    result,             \* what the call returned (or the exception it let out)
    fs,                 \* the files of the working directory, by path
    calls,              \* the calls made on engine and validator, in order
    attempts_data,      \* run_one_prompt: the per-attempt records
    success,            \* run_one_prompt: local
    bg_path, thumb_path,\* run_one_prompt: locals
    sys_stdout,         \* sys.stdout: the stream that print writes to
    old_stdout, buf,    \* run_one_prompt: locals (streams)
    log_text,           \* run_one_prompt: local
    streams             \* what has been written to each stream

locals == <<plan, extra, bg, final_img, is_text_ok, is_mobile_readable,
            is_contrast_ok, is_clean_geometry, _result>>
batch_locals == <<attempts_data, success, bg_path, thumb_path>>
capture == <<sys_stdout, old_stdout, buf, log_text, streams>>
vars == <<program, pc, prompt, attempt, locals, reasons, result, fs, calls,
          batch_locals, capture>>

(***************************************************************************)
(* Bounds of the environment.                                              *)
(***************************************************************************)
\* how many different plans the text model may answer with
NumPlans == 2

(***************************************************************************)
(* Constants of the program.                                               *)
(***************************************************************************)
None == "None"

\* the streams: the one that is sys.stdout when the program starts, another
\* that a caller may have installed, and the io.StringIO() of each iteration
Console == "sys.__stdout__"
CallerStream == "the caller's stream"
StringIO == <<"io.StringIO() 1", "io.StringIO() 2", "io.StringIO() 3">>

\* nothing redirected, nothing written
Uncaptured ==
    /\ sys_stdout = Console
    /\ old_stdout = None /\ buf = None /\ log_text = <<>>
    /\ streams = [s \in {Console, CallerStream} \cup {StringIO[n] : n \in 1..3} |-> <<>>]

max_retries == 3
retry_strategies ==
    << None,
       "Abstract geometric shapes and tech patterns only. Strictly NO people or faces.",
       "Minimalist solid color gradient. Completely abstract. Zero human subjects or silhouettes." >>

MAX_RETRIES == 3
RETRY_CONSTRAINTS ==
    << None,
       "Focus on high-contrast negative space for text.",
       "Solid minimalist background, extreme high contrast." >>

\* the names of the four checks, in the order the gate reports them
CheckNames == <<"text_fidelity", "mobile_readability", "contrast", "visual_integrity">>

\* the reason strings generate appends, by check
generate_reasons ==
    << "text_fidelity (OCR did not detect expected title)",
       "mobile_readability (title not readable at 200px)",
       "contrast (image contrast below threshold)",
       "visual_integrity (LLM: faces/text/artifacts detected)" >>

\* the reason strings run_one_prompt appends, by check
batch_reasons == CheckNames

\* the well-known paths
temp_bg          == "temp_bg.png"
latest_thumbnail == "latest_thumbnail.png"
ocr_mask         == "ocr_mask.png"
mobile_test      == "mobile_test.png"
outputs          == "outputs"
fallback_path    == "outputs/fallback_solid_color.png"
output_dir       == "batch_outputs/run/prompt_0"
\* os.path.join(output_dir, f"attempt_{n}_bg.png"), n = 1..3
attempt_bg_path ==
    << "batch_outputs/run/prompt_0/attempt_1_bg.png",
       "batch_outputs/run/prompt_0/attempt_2_bg.png",
       "batch_outputs/run/prompt_0/attempt_3_bg.png" >>
\* os.path.join(output_dir, f"attempt_{n}_thumb.png"), n = 1..3
attempt_thumb_path ==
    << "batch_outputs/run/prompt_0/attempt_1_thumb.png",
       "batch_outputs/run/prompt_0/attempt_2_thumb.png",
       "batch_outputs/run/prompt_0/attempt_3_thumb.png" >>

\* the bold fonts overlay_text probes for, in this order
FontPaths ==
    << "/System/Library/Fonts/Helvetica.ttc",
       "/System/Library/Fonts/Supplemental/Arial Bold.ttf",
       "C:\\Windows\\Fonts\\arialbd.ttf",
       "C:\\Windows\\Fonts\\Arial Bold.ttf",
       "/usr/share/fonts/truetype/dejavu/DejaVuSans-Bold.ttf" >>

Paths ==
    {temp_bg, latest_thumbnail, ocr_mask, mobile_test, outputs, fallback_path,
     output_dir}
    \cup {attempt_bg_path[n] : n \in 1..3}
    \cup {attempt_thumb_path[n] : n \in 1..3}
    \cup {FontPaths[n] : n \in DOMAIN FontPaths}

(***************************************************************************)
(* Files and images.  An image is known by where its pixels come from      *)
(* (origin, serial), its size, the text drawn on it, the font it is drawn  *)
(* in and the filter applied to it; that is all the pipeline can tell two  *)
(* images apart by.                                                        *)
(***************************************************************************)
File(kind, size, origin, serial, text, filter) ==
    [kind |-> kind, size |-> size, origin |-> origin, serial |-> serial,
     text |-> text, font |-> "", filter |-> filter]

Absent  == File("absent", <<0, 0>>, "", <<>>, "", "")
Dir     == File("dir", <<0, 0>>, "", <<>>, "", "")
\* a file some other party left at a path: an image of another size
Foreign == File("image", <<640, 360>>, "foreign", <<>>, "", "")
\* a TrueType font file
FontFile == File("font", <<0, 0>>, "", <<>>, "", "")
\* Image.new("RGB", (1280, 720), color=(45, 45, 55))
FallbackImage == File("image", <<1280, 720>>, "solid(45,45,55)", <<>>, "", "")

\* The image model is asked for a fresh, uncached generation: the j-th image
\* of the answer to the call of attempt a is an image of its own; its native
\* size is the model's choice.
NativeSizes == { <<1280, 720>>, <<1024, 1024>> }
Generated(a, j, size) == File("image", size, "gemini", <<a, j>>, "", "")

IsImage(f) == f.kind = "image"

\* img.resize((w, h))
Resize(img, w, h) == [img EXCEPT !.size = <<w, h>>]

\* as Min, the other way round
Greatest(S) == CHOOSE m \in S : \A n \in S : n <= m

Min(S) == CHOOSE m \in S : \A n \in S : m <= n

(***************************************************************************)
(* decompose_prompt: what the orchestrators see of it.  The text model's   *)
(* answer decides the plan; an empty answer yields the prompt itself as    *)
(* title and image prompt and "dark" as mode (plan 1).                     *)
(***************************************************************************)
Prompts == {"AI Wins"}

NoPlan == [title |-> None, image_prompt |-> None, mode |-> None]

ModelPlans ==
    << [title |-> "Machines Beat Humans",
        image_prompt |-> "A chrome chess king toppling on a marble board, cinematic light.",
        mode |-> "light"],
       [title |-> "The Last Human Move",
        image_prompt |-> "A glowing neon motherboard cracking and turning to rust.",
        mode |-> "dark"],
       [title |-> "Silicon Takes The Crown",
        image_prompt |-> "A crystal crown resting on a server rack in volumetric light.",
        mode |-> "light"] >>

LLMPlans(user_prompt) ==
    { [title |-> user_prompt, image_prompt |-> user_prompt, mode |-> "dark"] }
    \cup { ModelPlans[i] : i \in 1..(IF NumPlans - 1 < Len(ModelPlans)
                                     THEN NumPlans - 1 ELSE Len(ModelPlans)) }

\* str.upper(), on the titles of the model
Upper(s) ==
    CASE s = "AI Wins"                 -> "AI WINS"
      [] s = "Machines Beat Humans"    -> "MACHINES BEAT HUMANS"
      [] s = "The Last Human Move"     -> "THE LAST HUMAN MOVE"
      [] s = "Silicon Takes The Crown" -> "SILICON TAKES THE CROWN"
      [] OTHER                         -> s

(***************************************************************************)
(* generate_background.  An answer of the image model is its candidates,   *)
(* each the sequence of its content parts; a part carries inline image     *)
(* data or none.                                                           *)
(***************************************************************************)
NoInline == File("none", <<0, 0>>, "", <<>>, "", "")
TextPart == [inline_data |-> NoInline]
ImagePart(img) == [inline_data |-> img]

ImageResponses(a) ==
    { <<>>,                                     \* no candidates
      << <<>> >>,                               \* a candidate without parts
      << <<TextPart>> >> }                      \* parts, none an image
    \cup { << <<ImagePart(Generated(a, 1, s))>> >> : s \in NativeSizes }
    \cup { << <<TextPart, ImagePart(Generated(a, 1, s))>> >> : s \in NativeSizes }
    \cup { << <<ImagePart(Generated(a, 1, s)), ImagePart(Generated(a, 2, s))>> >>
             : s \in NativeSizes }

NoContent == "Generation failed: no content in response"
NoImage   == "Generation failed: no image in response (model may not support image generation)"

\* the prompt sent to the image model, as <<base prompt, appended constraint>>
full_prompt(image_prompt, extra_constraint) ==
    IF extra_constraint # None THEN <<image_prompt, extra_constraint>>
                               ELSE <<image_prompt>>

\* What generate_background does with the answer: the exception it raises
\* (None: it returns), and the file system it leaves.
generate_background(response, files) ==
    IF Len(response) = 0 \/ Len(response[1]) = 0
    THEN [exc |-> NoContent, fs |-> files, path |-> None]
    ELSE LET parts == response[1]
             imgs  == {i \in 1..Len(parts) : parts[i].inline_data # NoInline}
         IN  IF imgs = {}
             THEN [exc |-> NoImage, fs |-> files, path |-> None]
             ELSE [exc |-> None,
                   fs  |-> [files EXCEPT ![temp_bg] =
                              Resize(parts[Min(imgs)].inline_data, 1280, 720)],
                   path |-> temp_bg]

(***************************************************************************)
(* overlay_text: the composite of the background at bg_path and the title. *)
(***************************************************************************)
\* ImageFont.load_default()
DefaultFont == "ImageFont.load_default"

\* the first of the font paths that exists and loads as a font, else the default
resolve_font(files) ==
    LET found == {n \in DOMAIN FontPaths : files[FontPaths[n]].kind = "font"}
    IN  IF found = {} THEN DefaultFont ELSE FontPaths[Min(found)]

\* as overlay_text, drawing on the composite of the call before when there
\* is one: the text of that call stays under the new one
overlay_text_on_last(files, bgp, text, mode) ==
    LET img == IF files[latest_thumbnail] # Absent THEN files[latest_thumbnail]
                                                   ELSE Resize(files[bgp], 1280, 720)
    IN  [fs   |-> [files EXCEPT ![latest_thumbnail] =
                     [img EXCEPT !.text = @ \o Upper(text),
                                 !.font = resolve_font(files)]],
         path |-> latest_thumbnail]

\* as overlay_text, were the mode to choose the colours of the composite
overlay_text_by_mode(files, bgp, text, mode) ==
    LET img == Resize(files[bgp], 1280, 720)
    IN  [fs   |-> [files EXCEPT ![latest_thumbnail] =
                     [img EXCEPT !.text = Upper(text), !.font = resolve_font(files),
                                 !.filter = mode]],
         path |-> latest_thumbnail]

overlay_text(files, bgp, text, mode) ==
    LET img == Resize(files[bgp], 1280, 720)
    IN  [fs   |-> [files EXCEPT ![latest_thumbnail] =
                     [img EXCEPT !.text = Upper(text), !.font = resolve_font(files)]],
         path |-> latest_thumbnail]

(***************************************************************************)
(* The validator.  The similarity ratios and the contrast are measured in  *)
(* hundredths; which value a measurement gives is the environment's choice.*)
(***************************************************************************)
Ratios    == {50, 60, 61}
RmsLevels == {15, 16}

\* ratio > 0.5
fidelity_ok(ratio) == ratio > 50
\* similarity > 0.6
mobile_ok(similarity) == similarity > 60
\* rms_contrast > 0.15
contrast_ok(rms_contrast) == rms_contrast > 15

\* verify_text_fidelity writes the thresholded image to ocr_mask.png
verify_text_fidelity_fs(files, image_path) ==
    [files EXCEPT ![ocr_mask] = [files[image_path] EXCEPT !.filter = "L<200->0"]]

\* verify_mobile_readability writes the 200x112 preview to mobile_test.png
verify_mobile_readability_fs(files, image_path) ==
    [files EXCEPT ![mobile_test] = Resize(files[image_path], 200, 112)]

\* The audit model's answers, as character sequences.
AuditTexts ==
    { <<"P", "A", "S", "S">>,
      <<"F", "A", "I", "L">>,
      <<" ", "p", "a", "s", "s", "\n">>,
      <<"F", "A", "I", "L", " ", "n", "o", "t", " ", "P", "A", "S", "S">> }

API_ERROR ==
    <<"A", "P", "I", "_", "E", "R", "R", "O", "R", " ", "(", "P", "a", "s", "s",
      " ", "b", "y", " ", "d", "e", "f", "a", "u", "l", "t", ")">>

IsSpace(c) == c \in {" ", "\n", "\t"}

\* str.strip()
RECURSIVE LStrip(_)
LStrip(s) == IF s # <<>> /\ IsSpace(Head(s)) THEN LStrip(Tail(s)) ELSE s
RECURSIVE RStrip(_)
RStrip(s) == IF s # <<>> /\ IsSpace(s[Len(s)])
             THEN RStrip(SubSeq(s, 1, Len(s) - 1)) ELSE s
Strip(s) == RStrip(LStrip(s))

UpperChar(c) ==
    CASE c = "a" -> "A" [] c = "f" -> "F" [] c = "i" -> "I" [] c = "l" -> "L"
      [] c = "n" -> "N" [] c = "o" -> "O" [] c = "p" -> "P" [] c = "s" -> "S"
      [] c = "t" -> "T" [] OTHER -> c
\* str.upper(), on character sequences
UpperSeq(s) == [i \in 1..Len(s) |-> UpperChar(s[i])]

\* needle in hay
Contains(hay, needle) ==
    \E i \in 1..(Len(hay) + 1) :
        /\ i + Len(needle) - 1 <= Len(hay)
        /\ SubSeq(hay, i, i + Len(needle) - 1) = needle

\* as audit_verdict, had the answer been compared with "PASS"
audit_verdict_exact(text) ==
    LET res == UpperSeq(Strip(text))
    IN  <<res, res = <<"P", "A", "S", "S">>>>

\* the try-branch of check_visual_integrity, given the audit model's text
audit_verdict(text) ==
    LET res == UpperSeq(Strip(text))
    IN  <<res, Contains(res, <<"P", "A", "S", "S">>)>>

\* as audit_on_error, failing closed
audit_on_error_closed == <<API_ERROR, FALSE>>

\* the except-branch of check_visual_integrity
audit_on_error == <<API_ERROR, TRUE>>

(***************************************************************************)
(* The gate.                                                               *)
(***************************************************************************)
\* is_text_ok and is_mobile_readable and is_contrast_ok and is_clean_geometry
all_pass(t, m, c, v) == t /\ m /\ c /\ v

\* as append_reasons, had the four statements been an if/elif chain: only the
\* first failing check is reported
append_reasons_elif(rs, t, m, c, v, labels) ==
    IF ~t THEN Append(rs, labels[1])
    ELSE IF ~m THEN Append(rs, labels[2])
    ELSE IF ~c THEN Append(rs, labels[3])
    ELSE IF ~v THEN Append(rs, labels[4])
    ELSE rs

\* the four "if not ...: reasons.append(...)" statements, in order
append_reasons(rs, t, m, c, v, labels) ==
    LET r1 == IF ~t THEN Append(rs, labels[1]) ELSE rs
        r2 == IF ~m THEN Append(r1, labels[2]) ELSE r1
        r3 == IF ~c THEN Append(r2, labels[3]) ELSE r2
        r4 == IF ~v THEN Append(r3, labels[4]) ELSE r3
    IN  r4

\* as strategy, indexing with the number of retries already made
strategy_lagging(list, i) == IF i = 0 THEN None ELSE list[i]

\* retry_strategies[attempt] if attempt < len(retry_strategies) else None
strategy(list, i) == IF i < Len(list) THEN list[i + 1] ELSE None

\* as more_attempts, with the loop bound off by one
more_attempts_one_more(i) == i < max_retries

\* as more_attempts, had the loop been "while the gate fails"
more_attempts_while_failing(i) == TRUE

\* "for attempt in range(max_retries)" in generate: is there a next iteration?
more_attempts(i) == i + 1 < max_retries

\* as more_runs, with a range one short
more_runs_one_less(i) == i + 2 < MAX_RETRIES

\* "for attempt in range(MAX_RETRIES)" in run_one_prompt
more_runs(i) == i + 1 < MAX_RETRIES

\* as attempt_plan, with the plan of the first attempt cached
cached_plan(returned, previous, i) == IF i = 0 THEN returned ELSE previous

\* "plan = engine.decompose_prompt(prompt)": the plan an attempt works with is
\* the one its own call returned (returned), not the one of the attempt before
attempt_plan(returned, previous, i) == returned

\* as fresh_reasons, had the list been created once before the loop only
kept_reasons(rs) == rs

\* "reasons = []" at the top of the loop body
fresh_reasons(rs) == <<>>

Call(op, args) == [op |-> op, attempt |-> attempt, args |-> args]

\* the call of decompose_prompt and, when it returns, the plan it returned
DecomposeCall(user_prompt) == Call("decompose_prompt", <<user_prompt>>)
DecomposeReturn(p) == Call("decompose_prompt returned", <<p.title, p.image_prompt, p.mode>>)

NoResult == [status |-> "none"]
Raised(e) == [status |-> "raised", exception |-> e]


\* as success_result, reporting the 0-based loop variable
success_result_zero_based(url, i) ==
    [status |-> "success", url |-> url, attempts |-> i]

\* {"status": "success", "url": final_img, "attempts": attempt + 1}
success_result(url, i) ==
    [status |-> "success", url |-> url, attempts |-> i + 1]

\* the structured output when all attempts fail
failure_result(rs) ==
    [status        |-> "failed",
     error_type    |-> "ConstraintViolation",
     message       |-> "Quality constraints not met after 3 attempts.",
     failure_log   |-> rs,
     fallback_image |-> fallback_path]

\* as fallback_fs, without the os.path.exists test
fallback_fs_always(files) ==
    [files EXCEPT ![outputs] = Dir, ![fallback_path] = FallbackImage]

\* os.makedirs("outputs", exist_ok=True), then the fallback image is written
\* if no file exists at fallback_path
fallback_fs(files) ==
    [files EXCEPT ![outputs] = Dir,
                  ![fallback_path] =
                      IF files[fallback_path] = Absent THEN FallbackImage ELSE @]

\* The locals of an iteration are assigned before they are read; the values
\* an earlier iteration left in them are dead and are not kept.
ClearChecks ==
    /\ is_text_ok' = FALSE
    /\ is_mobile_readable' = FALSE
    /\ is_contrast_ok' = FALSE
    /\ is_clean_geometry' = FALSE
    /\ _result' = <<>>

ClearLocals ==
    /\ plan' = NoPlan
    /\ extra' = None
    /\ bg' = None
    /\ final_img' = None
    /\ ClearChecks

(***************************************************************************)
(* app.py: the /generate handler.  An exception a step raises is not       *)
(* caught in the handler: it leaves generate (result.status = "raised").   *)
(***************************************************************************)
\* as G_Raise, had the failing step been tried again within the attempt
G_Raise_retrying(e) ==
    /\ result' = result
    /\ pc' = "decompose"

G_Raise(e) ==
    /\ result' = Raised(e)
    /\ pc' = "done"

\* a request arrives: engine, validator, retry_strategies, reasons = []
G_Start ==
    /\ program = "app"
    /\ pc \in {"idle", "done"}
    /\ prompt' \in Prompts
    /\ attempt' = 0
    /\ reasons' = <<>>
    /\ result' = NoResult
    /\ calls' = <<>>
    /\ ClearLocals
    /\ pc' = "decompose"
    /\ UNCHANGED <<capture, program, fs, batch_locals>>

\* top of the loop body and step 1: plan = engine.decompose_prompt(prompt)
G_Decompose ==
    /\ program = "app"
    /\ pc = "decompose"
    /\ reasons' = fresh_reasons(reasons)
    /\ extra' = None /\ bg' = None /\ final_img' = None /\ ClearChecks
    /\ \/ \E p \in LLMPlans(prompt) :
            /\ calls' = calls \o <<DecomposeCall(prompt), DecomposeReturn(p)>>
            /\ plan' = attempt_plan(p, plan, attempt)
            /\ pc' = "synthesize"
            /\ UNCHANGED result
       \/ /\ calls' = Append(calls, DecomposeCall(prompt))
          /\ plan' = NoPlan
          /\ G_Raise("APIConnectionError")
    /\ UNCHANGED <<capture, program, prompt, attempt, fs, batch_locals>>

\* step 2: bg = engine.generate_background(plan["image_prompt"], extra)
G_Synthesize ==
    /\ program = "app"
    /\ pc = "synthesize"
    /\ extra' = strategy(retry_strategies, attempt)
    /\ calls' = calls \o
         << Call("generate_background", <<plan.image_prompt, extra'>>),
            Call("models.generate_content", full_prompt(plan.image_prompt, extra')) >>
    /\ \/ /\ G_Raise("APIConnectionError")
          /\ UNCHANGED <<bg, fs>>
       \/ \E response \in ImageResponses(attempt) :
            LET out == generate_background(response, fs)
            IN  /\ fs' = out.fs
                /\ IF out.exc # None
                   THEN G_Raise(out.exc) /\ UNCHANGED bg
                   ELSE /\ bg' = out.path
                        /\ pc' = "overlay"
                        /\ UNCHANGED result
    /\ UNCHANGED <<capture, program, prompt, attempt, plan, final_img, is_text_ok,
                   is_mobile_readable, is_contrast_ok, is_clean_geometry,
                   _result, reasons, batch_locals>>

\* step 3: final_img = engine.overlay_text(bg, plan["title"], plan["mode"])
G_Overlay ==
    /\ program = "app"
    /\ pc = "overlay"
    /\ calls' = Append(calls, Call("overlay_text", <<bg, plan.title, plan.mode>>))
    /\ \/ LET out == overlay_text(fs, bg, plan.title, plan.mode)
          IN  /\ fs' = out.fs
              /\ final_img' = out.path
              /\ pc' = "text_fidelity"
              /\ UNCHANGED result
       \/ /\ G_Raise("OSError")
          /\ UNCHANGED <<fs, final_img>>
    /\ UNCHANGED <<capture, program, prompt, attempt, plan, extra, bg, is_text_ok,
                   is_mobile_readable, is_contrast_ok, is_clean_geometry,
                   _result, reasons, batch_locals>>

\* step 4: is_text_ok = validator.verify_text_fidelity(final_img, plan["title"])
G_TextFidelity ==
    /\ program = "app"
    /\ pc = "text_fidelity"
    /\ calls' = Append(calls, Call("verify_text_fidelity", <<final_img, plan.title>>))
    /\ fs' = verify_text_fidelity_fs(fs, final_img)
    /\ \/ \E ratio \in Ratios :
            /\ is_text_ok' = fidelity_ok(ratio)
            /\ pc' = "mobile"
            /\ UNCHANGED result
       \/ /\ G_Raise("OCRError")
          /\ UNCHANGED is_text_ok
    /\ UNCHANGED <<capture, program, prompt, attempt, plan, extra, bg, final_img,
                   is_mobile_readable, is_contrast_ok, is_clean_geometry,
                   _result, reasons, batch_locals>>

\* step 5: is_mobile_readable = validator.verify_mobile_readability(...)
G_Mobile ==
    /\ program = "app"
    /\ pc = "mobile"
    /\ calls' = Append(calls, Call("verify_mobile_readability", <<final_img, plan.title>>))
    /\ fs' = verify_mobile_readability_fs(fs, final_img)
    /\ \/ \E similarity \in Ratios :
            /\ is_mobile_readable' = mobile_ok(similarity)
            /\ pc' = "contrast"
            /\ UNCHANGED result
       \/ /\ G_Raise("OCRError")
          /\ UNCHANGED is_mobile_readable
    /\ UNCHANGED <<capture, program, prompt, attempt, plan, extra, bg, final_img,
                   is_text_ok, is_contrast_ok, is_clean_geometry,
                   _result, reasons, batch_locals>>

\* step 6: rms, is_contrast_ok = validator.check_contrast(final_img)
G_Contrast ==
    /\ program = "app"
    /\ pc = "contrast"
    /\ calls' = Append(calls, Call("check_contrast", <<final_img>>))
    /\ \E rms \in RmsLevels : is_contrast_ok' = contrast_ok(rms)
    /\ pc' = "visual"
    /\ UNCHANGED <<capture, program, prompt, attempt, plan, extra, bg, final_img,
                   is_text_ok, is_mobile_readable, is_clean_geometry,
                   _result, reasons, result, fs, batch_locals>>

\* step 7: _result, is_clean_geometry = validator.check_visual_integrity(bg, ...)
G_Visual ==
    /\ program = "app"
    /\ pc = "visual"
    /\ calls' = Append(calls, Call("check_visual_integrity", <<bg>>))
    /\ \/ \E text \in AuditTexts :
            /\ _result' = audit_verdict(text)[1]
            /\ is_clean_geometry' = audit_verdict(text)[2]
       \/ /\ _result' = audit_on_error[1]
          /\ is_clean_geometry' = audit_on_error[2]
    /\ pc' = "gate"
    /\ UNCHANGED <<capture, program, prompt, attempt, plan, extra, bg, final_img,
                   is_text_ok, is_mobile_readable, is_contrast_ok,
                   reasons, result, fs, batch_locals>>

\* the gate: return on success, else record the reasons and go on
G_Gate ==
    /\ program = "app"
    /\ pc = "gate"
    /\ IF all_pass(is_text_ok, is_mobile_readable, is_contrast_ok, is_clean_geometry)
       THEN /\ result' = success_result(final_img, attempt)
            /\ pc' = "done"
            /\ UNCHANGED <<reasons, attempt>>
       ELSE /\ reasons' = append_reasons(reasons, is_text_ok, is_mobile_readable,
                                         is_contrast_ok, is_clean_geometry,
                                         generate_reasons)
            /\ IF more_attempts(attempt)
               THEN attempt' = attempt + 1 /\ pc' = "decompose"
               ELSE attempt' = attempt /\ pc' = "fallback"
            /\ UNCHANGED result
    /\ UNCHANGED <<capture, program, prompt, locals, fs, calls, batch_locals>>

\* after the loop: the fallback image and the failure object
G_Fallback ==
    /\ program = "app"
    /\ pc = "fallback"
    /\ fs' = fallback_fs(fs)
    /\ result' = failure_result(reasons)
    /\ pc' = "done"
    /\ UNCHANGED <<capture, program, prompt, attempt, locals, reasons, calls, batch_locals>>

(***************************************************************************)
(* batch_run.py: run_one_prompt.  The body of an attempt is a try block:   *)
(* an exception a step raises is caught, its message appended to reasons,  *)
(* and the attempt is recorded like any other.                             *)
(***************************************************************************)
\* as attempt_record, numbering the attempts with the loop variable
attempt_record_zero_based(i, bgp, thp, succ, rs) ==
    [attempt |-> i, bg_path |-> bgp, thumb_path |-> thp,
     success |-> succ, reasons |-> rs]

\* the dict appended to attempts_data, without its "log"
attempt_record(i, bgp, thp, succ, rs) ==
    [attempt |-> i + 1, bg_path |-> bgp, thumb_path |-> thp,
     success |-> succ, reasons |-> rs]

\* return success, attempts_data
batch_result(succ, data) ==
    [status |-> "returned", final_success |-> succ, attempts |-> data]

\* The end of an iteration: attempts_data.append(...), "if success: break",
\* and either the next iteration or the return.
R_EndAttempt(succ, rs, bgp, thp) ==
    /\ success' = succ
    /\ reasons' = rs
    /\ bg_path' = bgp
    /\ thumb_path' = thp
    /\ attempts_data' = Append(attempts_data, attempt_record(attempt, bgp, thp, succ, rs))
    /\ IF ~succ /\ more_runs(attempt)
       THEN /\ attempt' = attempt + 1
            /\ pc' = "decompose"
            /\ UNCHANGED result
       ELSE /\ attempt' = attempt
            /\ pc' = "done"
            /\ result' = batch_result(succ, attempts_data')

\* as R_Raise, had the handler not recorded the message
R_Raise_silent(e, rs, bgp, thp) == R_EndAttempt(FALSE, rs, bgp, thp)

\* except Exception as e: reasons.append(str(e)); then the end of the iteration
R_Raise(e, rs, bgp, thp) == R_EndAttempt(FALSE, Append(rs, e), bgp, thp)

\* run_one_prompt is called: os.makedirs(output_dir), attempts_data = []
R_Start ==
    /\ program = "batch"
    /\ pc = "idle"
    /\ prompt' \in Prompts
    /\ fs' = [fs EXCEPT ![output_dir] = Dir]
    /\ attempts_data' = <<>>
    /\ attempt' = 0
    /\ reasons' = <<>>
    /\ result' = NoResult
    /\ calls' = <<>>
    /\ ClearLocals
    /\ pc' = "decompose"
    /\ UNCHANGED <<capture, program, success, bg_path, thumb_path>>

\* top of the loop body and step 1
R_Decompose ==
    /\ program = "batch"
    /\ pc = "decompose"
    /\ extra' = None /\ bg' = None /\ final_img' = None /\ ClearChecks
    /\ \/ \E p \in LLMPlans(prompt) :
          /\ calls' = calls \o <<DecomposeCall(prompt), DecomposeReturn(p)>>
          /\ plan' = attempt_plan(p, plan, attempt)
          /\ reasons' = fresh_reasons(reasons)
          /\ bg_path' = None
          /\ thumb_path' = None
          /\ success' = FALSE
          /\ pc' = "synthesize"
          /\ UNCHANGED <<attempt, result, attempts_data>>
       \/ /\ calls' = Append(calls, DecomposeCall(prompt))
          /\ plan' = NoPlan
          /\ R_Raise("APIConnectionError", fresh_reasons(reasons), None, None)
    /\ UNCHANGED <<capture, program, prompt, fs>>

\* step 2
R_Synthesize ==
    /\ program = "batch"
    /\ pc = "synthesize"
    /\ extra' = strategy(RETRY_CONSTRAINTS, attempt)
    /\ calls' = calls \o
         << Call("generate_background", <<plan.image_prompt, extra'>>),
            Call("models.generate_content", full_prompt(plan.image_prompt, extra')) >>
    /\ \/ /\ R_Raise("APIConnectionError", reasons, bg_path, thumb_path)
          /\ UNCHANGED <<bg, fs>>
       \/ \E response \in ImageResponses(attempt) :
            LET out == generate_background(response, fs)
            IN  /\ fs' = out.fs
                /\ IF out.exc # None
                   THEN R_Raise(out.exc, reasons, bg_path, thumb_path) /\ UNCHANGED bg
                   ELSE /\ bg' = out.path
                        /\ pc' = "overlay"
                        /\ UNCHANGED <<attempt, reasons, result, batch_locals>>
    /\ UNCHANGED <<capture, program, prompt, plan, final_img, is_text_ok,
                   is_mobile_readable, is_contrast_ok, is_clean_geometry, _result>>

\* step 3
R_Overlay ==
    /\ program = "batch"
    /\ pc = "overlay"
    /\ calls' = Append(calls, Call("overlay_text", <<bg, plan.title, plan.mode>>))
    /\ \/ LET out == overlay_text(fs, bg, plan.title, plan.mode)
          IN  /\ fs' = out.fs
              /\ final_img' = out.path
              /\ pc' = "copy"
              /\ UNCHANGED <<attempt, reasons, result, batch_locals>>
       \/ /\ R_Raise("OSError", reasons, bg_path, thumb_path)
          /\ UNCHANGED <<fs, final_img>>
    /\ UNCHANGED <<capture, program, prompt, plan, extra, bg, is_text_ok,
                   is_mobile_readable, is_contrast_ok, is_clean_geometry, _result>>

\* as R_Copy, recording the shared files instead of copies of them
R_Copy_shared ==
    /\ program = "batch"
    /\ pc = "copy"
    /\ bg_path' = temp_bg
    /\ thumb_path' = final_img
    /\ pc' = "text_fidelity"
    /\ UNCHANGED <<capture, program, prompt, attempt, locals, reasons, result, fs, calls,
                   attempts_data, success>>

\* the two shutil.copy calls: this attempt's images, before they get overwritten
R_Copy ==
    /\ program = "batch"
    /\ pc = "copy"
    /\ bg_path' = attempt_bg_path[attempt + 1]
    /\ thumb_path' = attempt_thumb_path[attempt + 1]
    /\ fs' = [fs EXCEPT ![attempt_bg_path[attempt + 1]] = fs[temp_bg],
                        ![attempt_thumb_path[attempt + 1]] = fs[final_img]]
    /\ pc' = "text_fidelity"
    /\ UNCHANGED <<capture, program, prompt, attempt, locals, reasons, result, calls,
                   attempts_data, success>>

\* step 4
R_TextFidelity ==
    /\ program = "batch"
    /\ pc = "text_fidelity"
    /\ calls' = Append(calls, Call("verify_text_fidelity", <<final_img, plan.title>>))
    /\ fs' = verify_text_fidelity_fs(fs, final_img)
    /\ \/ \E ratio \in Ratios :
            /\ is_text_ok' = fidelity_ok(ratio)
            /\ pc' = "mobile"
            /\ UNCHANGED <<attempt, reasons, result, batch_locals>>
       \/ /\ R_Raise("OCRError", reasons, bg_path, thumb_path)
          /\ UNCHANGED is_text_ok
    /\ UNCHANGED <<capture, program, prompt, plan, extra, bg, final_img,
                   is_mobile_readable, is_contrast_ok, is_clean_geometry, _result>>

\* step 5
R_Mobile ==
    /\ program = "batch"
    /\ pc = "mobile"
    /\ calls' = Append(calls, Call("verify_mobile_readability", <<final_img, plan.title>>))
    /\ fs' = verify_mobile_readability_fs(fs, final_img)
    /\ \/ \E similarity \in Ratios :
            /\ is_mobile_readable' = mobile_ok(similarity)
            /\ pc' = "contrast"
            /\ UNCHANGED <<attempt, reasons, result, batch_locals>>
       \/ /\ R_Raise("OCRError", reasons, bg_path, thumb_path)
          /\ UNCHANGED is_mobile_readable
    /\ UNCHANGED <<capture, program, prompt, plan, extra, bg, final_img,
                   is_text_ok, is_contrast_ok, is_clean_geometry, _result>>

\* step 6
R_Contrast ==
    /\ program = "batch"
    /\ pc = "contrast"
    /\ calls' = Append(calls, Call("check_contrast", <<final_img>>))
    /\ \E rms \in RmsLevels : is_contrast_ok' = contrast_ok(rms)
    /\ pc' = "visual"
    /\ UNCHANGED <<capture, program, prompt, attempt, plan, extra, bg, final_img,
                   is_text_ok, is_mobile_readable, is_clean_geometry,
                   _result, reasons, result, fs, batch_locals>>

\* step 7: _, is_visual_clean = validator.check_visual_integrity(bg, ...)
R_Visual ==
    /\ program = "batch"
    /\ pc = "visual"
    /\ calls' = Append(calls, Call("check_visual_integrity", <<bg>>))
    /\ \/ \E text \in AuditTexts : is_clean_geometry' = audit_verdict(text)[2]
       \/ is_clean_geometry' = audit_on_error[2]
    /\ pc' = "gate"
    /\ UNCHANGED <<capture, program, prompt, attempt, plan, extra, bg, final_img,
                   is_text_ok, is_mobile_readable, is_contrast_ok, _result,
                   reasons, result, fs, batch_locals>>

\* success = ... and ...; the reasons on failure; then the end of the iteration
R_Gate ==
    /\ program = "batch"
    /\ pc = "gate"
    /\ IF all_pass(is_text_ok, is_mobile_readable, is_contrast_ok, is_clean_geometry)
       THEN R_EndAttempt(TRUE, reasons, bg_path, thumb_path)
       ELSE R_EndAttempt(FALSE,
                         append_reasons(reasons, is_text_ok, is_mobile_readable,
                                        is_contrast_ok, is_clean_geometry,
                                        batch_reasons),
                         bg_path, thumb_path)
    /\ UNCHANGED <<capture, program, prompt, locals, fs, calls>>

(***************************************************************************)
(* The initial states: the program that runs and the files it finds.       *)
(***************************************************************************)
NoFiles == [p \in Paths |-> Absent]

InitialFiles(prog) ==
    IF prog = "app"
    THEN { NoFiles,
           [NoFiles EXCEPT ![outputs] = Dir],
           [NoFiles EXCEPT ![outputs] = Dir, ![fallback_path] = FallbackImage],
           [NoFiles EXCEPT ![outputs] = Dir, ![fallback_path] = Foreign] }
    ELSE { NoFiles }

Init ==
    /\ program \in {"app", "batch"}
    /\ pc = "idle"
    /\ prompt \in Prompts
    /\ attempt = 0
    /\ plan = NoPlan /\ extra = None /\ bg = None /\ final_img = None
    /\ is_text_ok = FALSE /\ is_mobile_readable = FALSE
    /\ is_contrast_ok = FALSE /\ is_clean_geometry = FALSE
    /\ _result = <<>>
    /\ reasons = <<>>
    /\ result = NoResult
    /\ fs \in InitialFiles(program)
    /\ calls = <<>>
    /\ attempts_data = <<>> /\ success = FALSE
    /\ bg_path = None /\ thumb_path = None
    /\ Uncaptured

Next ==
    \/ G_Start \/ G_Decompose \/ G_Synthesize \/ G_Overlay \/ G_TextFidelity
    \/ G_Mobile \/ G_Contrast \/ G_Visual \/ G_Gate \/ G_Fallback
    \/ R_Start \/ R_Decompose \/ R_Synthesize \/ R_Overlay \/ R_Copy
    \/ R_TextFidelity \/ R_Mobile \/ R_Contrast \/ R_Visual \/ R_Gate

Spec == Init /\ [][Next]_vars


(***************************************************************************)
(* decompose_prompt, character by character: what it makes of the text     *)
(* model's message content.  Strings are sequences of characters here.     *)
(***************************************************************************)
\* s.split(sep), sep one character
RECURSIVE Split(_, _)
Split(s, sep) ==
    IF \E i \in DOMAIN s : s[i] = sep
    THEN LET i == Min({j \in DOMAIN s : s[j] = sep})
         IN  <<SubSeq(s, 1, i - 1)>> \o Split(SubSeq(s, i + 1, Len(s)), sep)
    ELSE <<s>>

\* [ln.strip() for ln in raw.split('\n') if ln.strip()]
Lines(raw) ==
    LET parts == Split(raw, "\n")
    IN  SelectSeq([i \in DOMAIN parts |-> Strip(parts[i])], LAMBDA ln : ln # <<>>)

\* s.replace(old, new): the occurrences of old, left to right, not overlapping
RECURSIVE Replace(_, _, _)
Replace(s, old, new) ==
    IF Len(s) < Len(old) THEN s
    ELSE IF SubSeq(s, 1, Len(old)) = old
         THEN new \o Replace(SubSeq(s, Len(old) + 1, Len(s)), old, new)
         ELSE <<Head(s)>> \o Replace(Tail(s), old, new)

\* s.split(): the maximal runs of characters that are not white space
RECURSIVE Words(_)
Words(s) ==
    LET t == LStrip(s)
    IN  IF t = <<>> THEN <<>>
        ELSE LET n == Min({j \in 1..(Len(t) + 1) : j = Len(t) + 1 \/ IsSpace(t[j])})
             IN  <<SubSeq(t, 1, n - 1)>> \o Words(SubSeq(t, n, Len(t)))

\* sep.join(words)
RECURSIVE Join(_, _)
Join(words, sep) ==
    IF words = <<>> THEN <<>>
    ELSE IF Len(words) = 1 THEN words[1]
    ELSE words[1] \o sep \o Join(Tail(words), sep)

\* seq[:n]
Take(seq, n) == SubSeq(seq, 1, IF Len(seq) < n THEN Len(seq) ELSE n)

UpperCase ==
    <<"A", "B", "C", "D", "E", "F", "G", "H", "I", "J", "K", "L", "M",
      "N", "O", "P", "Q", "R", "S", "T", "U", "V", "W", "X", "Y", "Z">>
LowerCase ==
    <<"a", "b", "c", "d", "e", "f", "g", "h", "i", "j", "k", "l", "m",
      "n", "o", "p", "q", "r", "s", "t", "u", "v", "w", "x", "y", "z">>

\* str.lower()
Lower(s) ==
    [i \in 1..Len(s) |->
        IF \E k \in 1..26 : UpperCase[k] = s[i]
        THEN LowerCase[CHOOSE k \in 1..26 : UpperCase[k] = s[i]]
        ELSE s[i]]

\* s.rstrip(c) and s.strip(c), c one character
RECURSIVE RStripChar(_, _)
RStripChar(s, c) ==
    IF s # <<>> /\ s[Len(s)] = c THEN RStripChar(SubSeq(s, 1, Len(s) - 1), c) ELSE s
RECURSIVE LStripChar(_, _)
LStripChar(s, c) == IF s # <<>> /\ Head(s) = c THEN LStripChar(Tail(s), c) ELSE s
StripChar(s, c) == RStripChar(LStripChar(s, c), c)

TitlePrefix == <<"T", "i", "t", "l", "e", ":", " ">>
dark  == <<"d", "a", "r", "k">>
light == <<"l", "i", "g", "h", "t">>

\* as title_of, keeping a "Title: " the model wrote
title_of_keeping_prefix(lines, user_prompt) ==
    LET title == IF lines # <<>> THEN lines[1] ELSE user_prompt
        title_words == Take(Words(title), 5)
    IN  IF title_words # <<>> THEN Join(title_words, <<" ">>)
                              ELSE Take(user_prompt, 40)

\* the title: lines 55 to 58
title_of(lines, user_prompt) ==
    LET title ==
            IF lines # <<>>
            THEN LET t == Strip(Replace(lines[1], TitlePrefix, <<>>))
                 IN  IF t # <<>> THEN t ELSE user_prompt
            ELSE user_prompt
        title_words == Take(Words(title), 5)
    IN  IF title_words # <<>> THEN Join(title_words, <<" ">>)
                              ELSE Take(user_prompt, 40)

\* as image_prompt_of, comparing with "dark" and "light" without rstrip(".")
image_prompt_of_no_rstrip(lines, user_prompt) ==
    LET image_prompt == IF Len(lines) > 1 THEN lines[2] ELSE user_prompt
    IN  IF Len(image_prompt) < 15 \/ Lower(image_prompt) \in {dark, light}
        THEN user_prompt ELSE image_prompt

\* the image prompt: lines 59 to 62
image_prompt_of(lines, user_prompt) ==
    LET image_prompt == IF Len(lines) > 1 THEN lines[2] ELSE user_prompt
    IN  IF Len(image_prompt) < 15
           \/ RStripChar(Lower(image_prompt), ".") \in {dark, light}
        THEN user_prompt ELSE image_prompt

\* as mode_of, without the coercion of unknown words to "dark"
mode_of_unchecked(lines) ==
    StripChar(IF Len(lines) > 2 THEN Lower(lines[3]) ELSE dark, ".")

\* the mode: lines 63 to 65
mode_of(lines) ==
    LET mode == StripChar(IF Len(lines) > 2 THEN Lower(lines[3]) ELSE dark, ".")
    IN  IF mode \notin {light, dark} THEN dark ELSE mode

\* lines 53 to 66, content being response.choices[0].message.content
decompose_prompt(user_prompt, content) ==
    LET raw   == Strip(content)
        lines == Lines(raw)
    IN  [title        |-> title_of(lines, user_prompt),
         image_prompt |-> image_prompt_of(lines, user_prompt),
         mode         |-> mode_of(lines)]

\* how many of the message contents the text model answers with
NumTexts == 21

\* The prompts a caller passes, as character sequences: the empty prompt,
\* blank prompts (the last one longer than 40 characters), a short prompt, a
\* prompt of more than 5 words and 40 characters, a prompt with irregular
\* white space.
UserPrompts ==
    { \* ""
      <<>>,
      \* "  "
      <<" ", " ">>,
      \* "AI Wins"
      <<"A", "I", " ", "W", "i", "n", "s">>,
      \* "Why the stock market crashed and what happens next"
      <<"W", "h", "y", " ", "t", "h", "e", " ", "s", "t", "o", "c", "k",
      " ", "m", "a", "r", "k", "e", "t", " ", "c", "r", "a", "s", "h",
      "e", "d", " ", "a", "n", "d", " ", "w", "h", "a", "t", " ", "h",
      "a", "p", "p", "e", "n", "s", " ", "n", "e", "x", "t">>,
      \* "  Top  10\tGadgets "
      <<" ", " ", "T", "o", "p", " ", " ", "1", "0", "\t", "G", "a", "d",
      "g", "e", "t", "s", " ">>,
      [i \in 1..41 |-> " "] }

\* The message contents the text model may answer with.
AllTexts ==
    << \* ""
       <<>>,
       \* " \n\t\n "
       <<" ", "\n", "\t", "\n", " ">>,
       \* "Machines Beat Humans\nA chrome king on a marble board.\nlight"
       <<"M", "a", "c", "h", "i", "n", "e", "s", " ", "B", "e", "a", "t",
       " ", "H", "u", "m", "a", "n", "s", "\n", "A", " ", "c", "h", "r",
       "o", "m", "e", " ", "k", "i", "n", "g", " ", "o", "n", " ", "a",
       " ", "m", "a", "r", "b", "l", "e", " ", "b", "o", "a", "r", "d",
       ".", "\n", "l", "i", "g", "h", "t">>,
       \* "Title: The Last Human Move\n\nA neon board turning to rust.\nDark.\n"
       <<"T", "i", "t", "l", "e", ":", " ", "T", "h", "e", " ", "L", "a",
       "s", "t", " ", "H", "u", "m", "a", "n", " ", "M", "o", "v", "e",
       "\n", "\n", "A", " ", "n", "e", "o", "n", " ", "b", "o", "a", "r",
       "d", " ", "t", "u", "r", "n", "i", "n", "g", " ", "t", "o", " ",
       "r", "u", "s", "t", ".", "\n", "D", "a", "r", "k", ".", "\n">>,
       \* "The Day The Machines Finally Won Everything\nA crystal crown on a server rack.\nbright"
       <<"T", "h", "e", " ", "D", "a", "y", " ", "T", "h", "e", " ", "M",
       "a", "c", "h", "i", "n", "e", "s", " ", "F", "i", "n", "a", "l",
       "l", "y", " ", "W", "o", "n", " ", "E", "v", "e", "r", "y", "t",
       "h", "i", "n", "g", "\n", "A", " ", "c", "r", "y", "s", "t", "a",
       "l", " ", "c", "r", "o", "w", "n", " ", "o", "n", " ", "a", " ",
       "s", "e", "r", "v", "e", "r", " ", "r", "a", "c", "k", ".", "\n",
       "b", "r", "i", "g", "h", "t">>,
       \* "Silicon Crown"
       <<"S", "i", "l", "i", "c", "o", "n", " ", "C", "r", "o", "w",
       "n">>,
       \* "Silicon Crown\nA gold crown.\nlight"
       <<"S", "i", "l", "i", "c", "o", "n", " ", "C", "r", "o", "w", "n",
       "\n", "A", " ", "g", "o", "l", "d", " ", "c", "r", "o", "w", "n",
       ".", "\n", "l", "i", "g", "h", "t">>,
       \* "Silicon Crown\ndark...........\nlight"
       <<"S", "i", "l", "i", "c", "o", "n", " ", "C", "r", "o", "w", "n",
       "\n", "d", "a", "r", "k", ".", ".", ".", ".", ".", ".", ".", ".",
       ".", ".", ".", "\n", "l", "i", "g", "h", "t">>,
       \* "Silicon Crown\nLIGHT............\ndark"
       <<"S", "i", "l", "i", "c", "o", "n", " ", "C", "r", "o", "w", "n",
       "\n", "L", "I", "G", "H", "T", ".", ".", ".", ".", ".", ".", ".",
       ".", ".", ".", ".", ".", "\n", "d", "a", "r", "k">>,
       \* "Silicon Crown\nRed sky at dusk\ndark"
       <<"S", "i", "l", "i", "c", "o", "n", " ", "C", "r", "o", "w", "n",
       "\n", "R", "e", "d", " ", "s", "k", "y", " ", "a", "t", " ", "d",
       "u", "s", "k", "\n", "d", "a", "r", "k">>,
       \* "Silicon Crown\nRed sky, dusk.\ndark"
       <<"S", "i", "l", "i", "c", "o", "n", " ", "C", "r", "o", "w", "n",
       "\n", "R", "e", "d", " ", "s", "k", "y", ",", " ", "d", "u", "s",
       "k", ".", "\n", "d", "a", "r", "k">>,
       \* "Silicon Crown\ndark.\nlight"
       <<"S", "i", "l", "i", "c", "o", "n", " ", "C", "r", "o", "w", "n",
       "\n", "d", "a", "r", "k", ".", "\n", "l", "i", "g", "h", "t">>,
       \* "Title:\nA chrome king on a marble board.\nlight"
       <<"T", "i", "t", "l", "e", ":", "\n", "A", " ", "c", "h", "r",
       "o", "m", "e", " ", "k", "i", "n", "g", " ", "o", "n", " ", "a",
       " ", "m", "a", "r", "b", "l", "e", " ", "b", "o", "a", "r", "d",
       ".", "\n", "l", "i", "g", "h", "t">>,
       \* "AI: Title: Wins Big\nA chrome king on a marble board.\n.light."
       <<"A", "I", ":", " ", "T", "i", "t", "l", "e", ":", " ", "W", "i",
       "n", "s", " ", "B", "i", "g", "\n", "A", " ", "c", "h", "r", "o",
       "m", "e", " ", "k", "i", "n", "g", " ", "o", "n", " ", "a", " ",
       "m", "a", "r", "b", "l", "e", " ", "b", "o", "a", "r", "d", ".",
       "\n", ".", "l", "i", "g", "h", "t", ".">>,
       \* "Machines   Beat\tHumans\nA chrome king on a marble board.\nLight mode"
       <<"M", "a", "c", "h", "i", "n", "e", "s", " ", " ", " ", "B", "e",
       "a", "t", "\t", "H", "u", "m", "a", "n", "s", "\n", "A", " ", "c",
       "h", "r", "o", "m", "e", " ", "k", "i", "n", "g", " ", "o", "n",
       " ", "a", " ", "m", "a", "r", "b", "l", "e", " ", "b", "o", "a",
       "r", "d", ".", "\n", "L", "i", "g", "h", "t", " ", "m", "o", "d",
       "e">>,
       \* "Machines Beat Humans\nA chrome king on a marble board.\n light \nOne more line"
       <<"M", "a", "c", "h", "i", "n", "e", "s", " ", "B", "e", "a", "t",
       " ", "H", "u", "m", "a", "n", "s", "\n", "A", " ", "c", "h", "r",
       "o", "m", "e", " ", "k", "i", "n", "g", " ", "o", "n", " ", "a",
       " ", "m", "a", "r", "b", "l", "e", " ", "b", "o", "a", "r", "d",
       ".", "\n", " ", "l", "i", "g", "h", "t", " ", "\n", "O", "n", "e",
       " ", "m", "o", "r", "e", " ", "l", "i", "n", "e">>,
       \* "Machines Beat Humans\nlight\nA chrome king on a marble board."
       <<"M", "a", "c", "h", "i", "n", "e", "s", " ", "B", "e", "a", "t",
       " ", "H", "u", "m", "a", "n", "s", "\n", "l", "i", "g", "h", "t",
       "\n", "A", " ", "c", "h", "r", "o", "m", "e", " ", "k", "i", "n",
       "g", " ", "o", "n", " ", "a", " ", "m", "a", "r", "b", "l", "e",
       " ", "b", "o", "a", "r", "d", ".">>,
       \* "\n\n  Title: Title: Crown  \n\nA chrome king on a marble board."
       <<"\n", "\n", " ", " ", "T", "i", "t", "l", "e", ":", " ", "T",
       "i", "t", "l", "e", ":", " ", "C", "r", "o", "w", "n", " ", " ",
       "\n", "\n", "A", " ", "c", "h", "r", "o", "m", "e", " ", "k", "i",
       "n", "g", " ", "o", "n", " ", "a", " ", "m", "a", "r", "b", "l",
       "e", " ", "b", "o", "a", "r", "d", ".">>,
       \* "one two three four five six\nA chrome king on a marble board.\nDARK"
       <<"o", "n", "e", " ", "t", "w", "o", " ", "t", "h", "r", "e", "e",
       " ", "f", "o", "u", "r", " ", "f", "i", "v", "e", " ", "s", "i",
       "x", "\n", "A", " ", "c", "h", "r", "o", "m", "e", " ", "k", "i",
       "n", "g", " ", "o", "n", " ", "a", " ", "m", "a", "r", "b", "l",
       "e", " ", "b", "o", "a", "r", "d", ".", "\n", "D", "A", "R",
       "K">>,
       \* "Machines Beat Humans\nA chrome king on a marble board.\ndark.."
       <<"M", "a", "c", "h", "i", "n", "e", "s", " ", "B", "e", "a", "t",
       " ", "H", "u", "m", "a", "n", "s", "\n", "A", " ", "c", "h", "r",
       "o", "m", "e", " ", "k", "i", "n", "g", " ", "o", "n", " ", "a",
       " ", "m", "a", "r", "b", "l", "e", " ", "b", "o", "a", "r", "d",
       ".", "\n", "d", "a", "r", "k", ".", ".">>,
       \* "Silicon Crown\nDark mode it is then\nlight."
       <<"S", "i", "l", "i", "c", "o", "n", " ", "C", "r", "o", "w", "n",
       "\n", "D", "a", "r", "k", " ", "m", "o", "d", "e", " ", "i", "t",
       " ", "i", "s", " ", "t", "h", "e", "n", "\n", "l", "i", "g", "h",
       "t", ".">>,
       \* "Silicon Crown\n...............\n."
       <<"S", "i", "l", "i", "c", "o", "n", " ", "C", "r", "o", "w", "n",
       "\n", ".", ".", ".", ".", ".", ".", ".", ".", ".", ".", ".", ".",
       ".", ".", ".", "\n", ".">> >>

ModelTexts ==
    {AllTexts[i] : i \in 1..(IF NumTexts < Len(AllTexts) THEN NumTexts
                                                         ELSE Len(AllTexts))}

(***************************************************************************)
(* The engine's methods called on their own (program names the method).    *)
(***************************************************************************)
\* nothing has been called yet
Fresh ==
    /\ pc = "idle"
    /\ attempt = 0
    /\ plan = NoPlan /\ extra = None /\ bg = None /\ final_img = None
    /\ is_text_ok = FALSE /\ is_mobile_readable = FALSE
    /\ is_contrast_ok = FALSE /\ is_clean_geometry = FALSE
    /\ _result = <<>>
    /\ reasons = <<>>
    /\ result = NoResult
    /\ calls = <<>>
    /\ attempts_data = <<>> /\ success = FALSE
    /\ bg_path = None /\ thumb_path = None
    /\ Uncaptured

Returned(value) == [status |-> "returned", value |-> value]

\* decompose_prompt(user_prompt) is called: the chat completion is requested,
\* and the text model answers or the request fails
D_Create ==
    /\ program = "decompose_prompt"
    /\ pc = "idle"
    /\ \/ \E content \in ModelTexts :
            /\ calls' = << [op |-> "chat.completions.create", attempt |-> 0,
                            args |-> <<prompt>>, content |-> content] >>
            /\ pc' = "parse"
            /\ UNCHANGED result
       \/ /\ calls' = << Call("chat.completions.create", <<prompt>>) >>
          /\ G_Raise("APIConnectionError")
    /\ UNCHANGED <<capture, program, prompt, attempt, locals, reasons, fs, batch_locals>>

\* the answer is parsed and the plan returned
D_Parse ==
    /\ program = "decompose_prompt"
    /\ pc = "parse"
    /\ plan' = decompose_prompt(prompt, calls[1].content)
    /\ result' = Returned(plan')
    /\ pc' = "done"
    /\ UNCHANGED <<capture, program, prompt, attempt, extra, bg, final_img, is_text_ok,
                   is_mobile_readable, is_contrast_ok, is_clean_geometry,
                   _result, reasons, fs, calls, batch_locals>>

InitDecompose ==
    /\ program = "decompose_prompt"
    /\ prompt \in UserPrompts
    /\ fs = NoFiles
    /\ Fresh

NextDecompose == D_Create \/ D_Parse

SpecDecompose == InitDecompose /\ [][NextDecompose]_vars

(***************************************************************************)
(* generate_background called on its own, several times in a row in one    *)
(* working directory.                                                      *)
(***************************************************************************)
\* how many calls a run makes
MaxCalls == 3

\* generate_background(prompt, extra_constraint) is called and sends its
\* request; attempt counts the calls made
B_Call ==
    /\ program = "generate_background"
    /\ pc \in {"idle", "done"}
    /\ attempt < MaxCalls
    /\ \E image_prompt \in {ModelPlans[i].image_prompt : i \in 1..2},
          extra_constraint \in {None, retry_strategies[2]} :
          /\ extra' = extra_constraint
          /\ calls' = << Call("generate_background", <<image_prompt, extra_constraint>>),
                         Call("models.generate_content",
                              full_prompt(image_prompt, extra_constraint)) >>
    /\ result' = NoResult
    /\ bg' = None
    /\ pc' = "respond"
    /\ UNCHANGED <<capture, program, prompt, attempt, plan, final_img, is_text_ok,
                   is_mobile_readable, is_contrast_ok, is_clean_geometry,
                   _result, reasons, fs, batch_locals>>

\* the request fails, or the image model answers and the answer is handled
B_Answer ==
    /\ program = "generate_background"
    /\ pc = "respond"
    /\ attempt' = attempt + 1
    /\ \/ /\ G_Raise("APIConnectionError")
          /\ UNCHANGED <<bg, fs, calls>>
       \/ \E response \in ImageResponses(attempt) :
            LET out == generate_background(response, fs)
            IN  /\ calls' = Append(calls, [op |-> "models.generate_content returned",
                                           attempt |-> attempt, args |-> <<>>,
                                           response |-> response])
                /\ fs' = out.fs
                /\ IF out.exc # None
                   THEN G_Raise(out.exc) /\ UNCHANGED bg
                   ELSE /\ bg' = out.path
                        /\ result' = Returned(out.path)
                        /\ pc' = "done"
    /\ UNCHANGED <<capture, program, prompt, plan, extra, final_img, is_text_ok,
                   is_mobile_readable, is_contrast_ok, is_clean_geometry,
                   _result, reasons, batch_locals>>

\* the working directory is empty, or holds a file an earlier run left
InitBackground ==
    /\ program = "generate_background"
    /\ prompt \in Prompts
    /\ fs \in {NoFiles, [NoFiles EXCEPT ![temp_bg] = Foreign]}
    /\ Fresh

NextBackground == B_Call \/ B_Answer

SpecBackground == InitBackground /\ [][NextBackground]_vars

(***************************************************************************)
(* overlay_text called on its own, several times in a row in one working   *)
(* directory, on two backgrounds; fonts get installed and removed.         *)
(***************************************************************************)
\* how many calls a run makes
MaxOverlays == 3

Titles == {"AI Wins", "Machines Beat Humans"}

\* the two backgrounds: one of the canvas size, one of another native size
Backgrounds ==
    [NoFiles EXCEPT ![temp_bg] = Generated(0, 1, <<1280, 720>>),
                    ![attempt_bg_path[1]] = Generated(1, 1, <<1024, 1024>>)]

\* overlay_text(bg_path, text, mode) is called and returns; attempt counts
\* the calls made
O_Overlay ==
    /\ program = "overlay_text"
    /\ pc \in {"idle", "done"}
    /\ attempt < MaxOverlays
    /\ \E bgp \in {temp_bg, attempt_bg_path[1]}, text \in Titles,
          mode \in {"light", "dark"} :
          LET out == overlay_text(fs, bgp, text, mode)
          IN  /\ calls' = Append(calls,
                     [op |-> "overlay_text", attempt |-> attempt,
                      args |-> <<bgp, text, mode>>,
                      background |-> fs[bgp],
                      font |-> resolve_font(fs),
                      composite |-> out.fs[out.path]])
              /\ fs' = out.fs
              /\ final_img' = out.path
              /\ result' = Returned(out.path)
    /\ attempt' = attempt + 1
    /\ pc' = "done"
    /\ UNCHANGED <<capture, program, prompt, plan, extra, bg, is_text_ok,
                   is_mobile_readable, is_contrast_ok, is_clean_geometry,
                   _result, reasons, batch_locals>>

\* between two calls a font is installed or removed
O_Fonts ==
    /\ program = "overlay_text"
    /\ pc = "done"
    /\ attempt < MaxOverlays
    /\ \E n \in {1, 5} :
          fs' = [fs EXCEPT ![FontPaths[n]] = IF @ = Absent THEN FontFile ELSE Absent]
    /\ pc' = "idle"
    /\ UNCHANGED <<capture, program, prompt, attempt, locals, reasons, result, calls,
                   batch_locals>>

InitOverlay ==
    /\ program = "overlay_text"
    /\ prompt \in Prompts
    /\ fs \in {Backgrounds, [Backgrounds EXCEPT ![FontPaths[5]] = FontFile]}
    /\ Fresh

NextOverlay == O_Overlay \/ O_Fonts

SpecOverlay == InitOverlay /\ [][NextOverlay]_vars

(***************************************************************************)
(* check_visual_integrity called on its own, several times in a row, on    *)
(* the background at temp_bg.png.                                          *)
(***************************************************************************)
\* how many calls a run makes
MaxAudits == 3

\* the texts of the audit model's answers
AuditAnswers ==
    AuditTexts \cup
    { <<>>,
      <<"P", "a", "s", "s">>,
      <<"p", "a", "s">>,
      <<"P", " ", "A", " ", "S", " ", "S">>,
      <<" ", "F", "A", "I", "L", " ", "\n">>,
      <<"f", "a", "i", "l", ",", " ", "n", "o", "t", " ", "a", " ", "p", "a",
        "s", "s">> }

\* check_visual_integrity(bg_image_path, gemini_client) is called: the image
\* is opened and the audit request sent; attempt counts the calls made
V_Call ==
    /\ program = "check_visual_integrity"
    /\ pc \in {"idle", "done"}
    /\ attempt < MaxAudits
    /\ calls' = Append(calls, Call("check_visual_integrity", <<temp_bg>>))
    /\ result' = NoResult
    /\ pc' = "respond"
    /\ UNCHANGED <<capture, program, prompt, attempt, locals, reasons, fs, batch_locals>>

\* the audit model answers with a text, or the call raises
V_Answer ==
    /\ program = "check_visual_integrity"
    /\ pc = "respond"
    /\ attempt' = attempt + 1
    /\ \/ \E text \in AuditAnswers :
            /\ calls' = Append(calls, [op |-> "models.generate_content returned",
                                       attempt |-> attempt, args |-> <<>>,
                                       text |-> text])
            /\ _result' = audit_verdict(text)[1]
            /\ is_clean_geometry' = audit_verdict(text)[2]
       \/ /\ calls' = Append(calls, Call("models.generate_content raised", <<>>))
          /\ _result' = audit_on_error[1]
          /\ is_clean_geometry' = audit_on_error[2]
    /\ result' = Returned(<<_result', is_clean_geometry'>>)
    /\ pc' = "done"
    /\ UNCHANGED <<capture, program, prompt, plan, extra, bg, final_img, is_text_ok,
                   is_mobile_readable, is_contrast_ok, reasons, fs, batch_locals>>

InitAudit ==
    /\ program = "check_visual_integrity"
    /\ prompt \in Prompts
    /\ fs = [NoFiles EXCEPT ![temp_bg] = Generated(0, 1, <<1280, 720>>)]
    /\ Fresh

NextAudit == V_Call \/ V_Answer

SpecAudit == InitAudit /\ [][NextAudit]_vars

(***************************************************************************)
(* generate and run_one_prompt side by side on one prompt: each attempt    *)
(* runs in both, no step raises, and the four checks give both the same    *)
(* outcomes.  generate works on attempt, reasons and result, run_one_prompt*)
(* on success and attempts_data; its loop variable is the number of        *)
(* records it has appended.                                                *)
(***************************************************************************)
\* both are called
P_Start ==
    /\ program = "generate and run_one_prompt"
    /\ pc = "idle"
    /\ prompt' \in Prompts
    /\ attempt' = 0
    /\ reasons' = <<>>
    /\ result' = NoResult
    /\ attempts_data' = <<>>
    /\ success' = FALSE
    /\ pc' = "checks"
    /\ UNCHANGED <<capture, program, locals, fs, calls, bg_path, thumb_path>>

\* steps 1 to 7 of the attempt, in both: the outcomes of the four checks
P_Checks ==
    /\ program = "generate and run_one_prompt"
    /\ pc = "checks"
    /\ reasons' = fresh_reasons(reasons)
    /\ is_text_ok' \in BOOLEAN
    /\ is_mobile_readable' \in BOOLEAN
    /\ is_contrast_ok' \in BOOLEAN
    /\ is_clean_geometry' \in BOOLEAN
    /\ pc' = "gate"
    /\ UNCHANGED <<capture, program, prompt, attempt, plan, extra, bg, final_img, _result,
                   result, fs, calls, batch_locals>>

\* the gate and the end of the iteration, in both
P_Gate ==
    /\ program = "generate and run_one_prompt"
    /\ pc = "gate"
    /\ LET ok == all_pass(is_text_ok, is_mobile_readable, is_contrast_ok,
                          is_clean_geometry)
           n  == Len(attempts_data)
       IN  \* app.py, lines 89 to 115
           /\ IF ok
              THEN /\ result' = success_result(latest_thumbnail, attempt)
                   /\ UNCHANGED <<reasons, attempt, fs>>
              ELSE /\ reasons' = append_reasons(reasons, is_text_ok,
                                                is_mobile_readable, is_contrast_ok,
                                                is_clean_geometry, generate_reasons)
                   /\ IF more_attempts(attempt)
                      THEN /\ attempt' = attempt + 1
                           /\ UNCHANGED <<result, fs>>
                      ELSE /\ attempt' = attempt
                           /\ fs' = fallback_fs(fs)
                           /\ result' = failure_result(reasons')
           \* batch_run.py, lines 91 to 120
           /\ success' = ok
           /\ attempts_data' =
                Append(attempts_data,
                       attempt_record(n, attempt_bg_path[n + 1], attempt_thumb_path[n + 1],
                                      ok,
                                      IF ok THEN <<>>
                                      ELSE append_reasons(<<>>, is_text_ok,
                                                          is_mobile_readable,
                                                          is_contrast_ok,
                                                          is_clean_geometry,
                                                          batch_reasons)))
           /\ pc' = IF result'.status = "none" /\ ~ok /\ more_runs(n)
                    THEN "checks" ELSE "done"
    /\ UNCHANGED <<capture, program, prompt, locals, calls, bg_path, thumb_path>>

InitAgree ==
    /\ program = "generate and run_one_prompt"
    /\ prompt \in Prompts
    /\ fs \in InitialFiles("app")
    /\ Fresh

NextAgree == P_Start \/ P_Checks \/ P_Gate

SpecAgree == InitAgree /\ [][NextAgree]_vars

(***************************************************************************)
(* Two /generate requests on one event loop.  generate is a coroutine      *)
(* function (app.py, line 38) whose body has no await, async for or async  *)
(* with: once the loop has started the handler of a request it gets        *)
(* control back only when the handler returns or lets an exception out.    *)
(* Here pc, prompt, attempt, plan, bg, final_img and result are per        *)
(* request; fs is the one working directory; calls logs what each request  *)
(* did, and for a check the file it was given.                             *)
(***************************************************************************)
Requests == {1, 2}

\* the image the image model draws for attempt a of request r
Answer(r, a) == [Generated(a, 1, <<1280, 720>>) EXCEPT !.serial = <<r, a>>]

\* the requests whose handler has started and has not returned
Started == {r \in Requests : pc[r] \notin {"none", "pending", "done"}}

\* as loop_takes_next, were the handler to give up control at every step
loop_takes_next_any(running) == TRUE

\* the loop starts the next handler only when it runs none
loop_takes_next(running) == running = {}

Step(op, r, a, file) == [op |-> op, request |-> r, attempt |-> a, file |-> file]

\* a request comes in: its handler is scheduled
L_Arrive(r) ==
    /\ program = "event loop"
    /\ pc[r] = "none"
    /\ pc' = [pc EXCEPT ![r] = "pending"]
    /\ \E p \in Titles : prompt' = [prompt EXCEPT ![r] = p]
    /\ UNCHANGED <<capture, program, attempt, locals, reasons, result, fs, calls, batch_locals>>

\* the loop starts a scheduled handler
L_Run(r) ==
    /\ program = "event loop"
    /\ pc[r] = "pending"
    /\ loop_takes_next(Started)
    /\ pc' = [pc EXCEPT ![r] = "decompose"]
    /\ attempt' = [attempt EXCEPT ![r] = 0]
    /\ calls' = Append(calls, Step("generate", r, 0, Absent))
    /\ UNCHANGED <<capture, program, prompt, locals, reasons, result, fs, batch_locals>>

\* step 1; the title is the prompt's
H_Decompose(r) ==
    /\ program = "event loop"
    /\ pc[r] = "decompose"
    /\ plan' = [plan EXCEPT ![r] = prompt[r]]
    /\ pc' = [pc EXCEPT ![r] = "background"]
    /\ calls' = Append(calls, Step("decompose_prompt", r, attempt[r], Absent))
    /\ UNCHANGED <<capture, program, prompt, attempt, extra, bg, final_img, is_text_ok,
                   is_mobile_readable, is_contrast_ok, is_clean_geometry, _result,
                   reasons, result, fs, batch_locals>>

\* step 2: temp_bg.png is written, or generate_background raises and the
\* handler lets the exception out
H_Background(r) ==
    /\ program = "event loop"
    /\ pc[r] = "background"
    /\ \E response \in { << <<ImagePart(Answer(r, attempt[r]))>> >>, << <<TextPart>> >> } :
         LET g == generate_background(response, fs)
         IN  /\ fs' = g.fs
             /\ bg' = [bg EXCEPT ![r] = g.path]
             /\ IF g.exc = None
                THEN /\ pc' = [pc EXCEPT ![r] = "overlay"]
                     /\ UNCHANGED result
                ELSE /\ pc' = [pc EXCEPT ![r] = "done"]
                     /\ result' = [result EXCEPT ![r] = Raised(g.exc)]
    /\ calls' = Append(calls, Step("generate_background", r, attempt[r], Absent))
    /\ UNCHANGED <<capture, program, prompt, attempt, plan, extra, final_img, is_text_ok,
                   is_mobile_readable, is_contrast_ok, is_clean_geometry, _result,
                   reasons, batch_locals>>

\* step 3: latest_thumbnail.png is written from the file at bg
H_Overlay(r) ==
    /\ program = "event loop"
    /\ pc[r] = "overlay"
    /\ LET o == overlay_text(fs, bg[r], plan[r], "dark")
       IN  /\ fs' = o.fs
           /\ final_img' = [final_img EXCEPT ![r] = o.path]
    /\ pc' = [pc EXCEPT ![r] = "text_fidelity"]
    /\ calls' = Append(calls, Step("overlay_text", r, attempt[r], fs[bg[r]]))
    /\ UNCHANGED <<capture, program, prompt, attempt, plan, extra, bg, is_text_ok,
                   is_mobile_readable, is_contrast_ok, is_clean_geometry, _result,
                   reasons, result, batch_locals>>

\* steps 4, 5 and 6: each opens the file at final_img
H_Composite(r) ==
    /\ program = "event loop"
    /\ \E at \in {<<"text_fidelity", "verify_text_fidelity", "mobile">>,
                  <<"mobile", "verify_mobile_readability", "contrast">>,
                  <<"contrast", "check_contrast", "visual">>} :
         /\ pc[r] = at[1]
         /\ calls' = Append(calls, Step(at[2], r, attempt[r], fs[final_img[r]]))
         /\ pc' = [pc EXCEPT ![r] = at[3]]
    /\ UNCHANGED <<capture, program, prompt, attempt, locals, reasons, result, fs, batch_locals>>

\* step 7: the file at bg is sent to the audit
H_Visual(r) ==
    /\ program = "event loop"
    /\ pc[r] = "visual"
    /\ calls' = Append(calls, Step("check_visual_integrity", r, attempt[r], fs[bg[r]]))
    /\ pc' = [pc EXCEPT ![r] = "gate"]
    /\ UNCHANGED <<capture, program, prompt, attempt, locals, reasons, result, fs, batch_locals>>

\* the gate: return, next attempt, or the fallback and return
H_Gate(r) ==
    /\ program = "event loop"
    /\ pc[r] = "gate"
    /\ \E ok \in BOOLEAN :
         IF ok
         THEN /\ result' = [result EXCEPT ![r] = success_result(final_img[r], attempt[r])]
              /\ pc' = [pc EXCEPT ![r] = "done"]
              /\ UNCHANGED <<attempt, fs>>
         ELSE IF more_attempts(attempt[r])
              THEN /\ attempt' = [attempt EXCEPT ![r] = @ + 1]
                   /\ pc' = [pc EXCEPT ![r] = "decompose"]
                   /\ UNCHANGED <<result, fs>>
              ELSE /\ fs' = fallback_fs(fs)
                   /\ result' = [result EXCEPT ![r] = failure_result(<<>>)]
                   /\ pc' = [pc EXCEPT ![r] = "done"]
                   /\ UNCHANGED attempt
    /\ UNCHANGED <<capture, program, prompt, locals, reasons, calls, batch_locals>>

InitLoop ==
    /\ program = "event loop"
    /\ pc = [r \in Requests |-> "none"]
    /\ prompt = [r \in Requests |-> ""]
    /\ attempt = [r \in Requests |-> 0]
    /\ plan = [r \in Requests |-> ""]
    /\ bg = [r \in Requests |-> None]
    /\ final_img = [r \in Requests |-> None]
    /\ result = [r \in Requests |-> NoResult]
    /\ extra = None
    /\ is_text_ok = FALSE /\ is_mobile_readable = FALSE
    /\ is_contrast_ok = FALSE /\ is_clean_geometry = FALSE
    /\ _result = <<>>
    /\ reasons = <<>>
    /\ fs \in InitialFiles("app")
    /\ calls = <<>>
    /\ attempts_data = <<>> /\ success = FALSE
    /\ bg_path = None /\ thumb_path = None
    /\ Uncaptured

NextLoop ==
    \E r \in Requests :
        \/ L_Arrive(r) \/ L_Run(r) \/ H_Decompose(r) \/ H_Background(r)
        \/ H_Overlay(r) \/ H_Composite(r) \/ H_Visual(r) \/ H_Gate(r)

SpecLoop == InitLoop /\ [][NextLoop]_vars

(***************************************************************************)
(* run_one_prompt and sys.stdout.  Every iteration installs a new          *)
(* io.StringIO() as sys.stdout, runs the steps of the attempt, each of     *)
(* which prints and may raise, and in its finally clause reads the buffer  *)
(* and puts the old stream back.  What the steps compute is left out here  *)
(* (it is in Spec); what they print is kept, line by line, with the        *)
(* attempt that printed it.                                                *)
(***************************************************************************)
StepNames == <<"decompose", "synthesize", "overlay", "copy", "text_fidelity",
               "mobile", "contrast", "visual">>

\* print(...), once for each of the texts: the lines go to the stream that
\* is sys.stdout, each kept with the iteration that printed it
print(texts) ==
    streams' = [streams EXCEPT ![sys_stdout] =
                  @ \o [k \in DOMAIN texts |-> [attempt |-> attempt, text |-> texts[k]]]]

\* as S_Finally, without "sys.stdout = old_stdout"
S_Finally_redirected ==
    /\ program = "run_one_prompt, sys.stdout"
    /\ pc = "finally"
    /\ log_text' = streams[buf]
    /\ pc' = IF result.status = "raised" THEN "done" ELSE "append"
    /\ UNCHANGED <<sys_stdout, old_stdout, buf, streams>>
    /\ UNCHANGED <<program, prompt, attempt, locals, reasons, result, fs, calls,
                   batch_locals>>

\* run_one_prompt is called
S_Call ==
    /\ program = "run_one_prompt, sys.stdout"
    /\ pc = "idle"
    /\ attempt' = 0
    /\ attempts_data' = <<>>
    /\ calls' = <<[op |-> "run_one_prompt", attempt |-> 0, args |-> <<prompt>>,
                   stdout |-> sys_stdout]>>
    /\ pc' = "redirect"
    /\ UNCHANGED <<capture, program, prompt, locals, reasons, result, fs, success,
                   bg_path, thumb_path>>

\* the head of the iteration, and the banner
S_Redirect ==
    /\ program = "run_one_prompt, sys.stdout"
    /\ pc = "redirect"
    /\ old_stdout' = sys_stdout
    /\ buf' = StringIO[attempt + 1]
    /\ sys_stdout' = buf'
    /\ streams' = [streams EXCEPT ![buf'] = <<[attempt |-> attempt, text |-> "ATTEMPT"]>>]
    /\ reasons' = <<>>
    /\ bg_path' = None /\ thumb_path' = None
    /\ success' = FALSE
    /\ pc' = StepNames[1]
    /\ UNCHANGED <<log_text, program, prompt, attempt, locals, result, fs, calls,
                   attempts_data>>

\* A step of the try block, after its heading is printed: it returns and
\* what it reports is printed, or it raises: an Exception, which the except
\* clause handles, or a BaseException that is none (KeyboardInterrupt),
\* which it does not.  The two paths are assigned before the copies are made.
S_Step ==
    /\ program = "run_one_prompt, sys.stdout"
    /\ \E k \in DOMAIN StepNames :
         /\ pc = StepNames[k]
         /\ bg_path' = IF pc = "copy" THEN attempt_bg_path[attempt + 1] ELSE bg_path
         /\ thumb_path' = IF pc = "copy" THEN attempt_thumb_path[attempt + 1]
                                         ELSE thumb_path
         /\ \/ /\ print(<<pc, "  -> ">>)
               /\ pc' = IF k < Len(StepNames) THEN StepNames[k + 1] ELSE "gate"
               /\ UNCHANGED <<reasons, result>>
            \/ /\ print(<<pc, "ERROR: ">>)
               /\ reasons' = Append(reasons, pc)
               /\ pc' = "finally"
               /\ UNCHANGED result
            \/ /\ print(<<pc>>)
               /\ result' = Raised("KeyboardInterrupt")
               /\ pc' = "finally"
               /\ UNCHANGED reasons
    /\ UNCHANGED <<sys_stdout, old_stdout, buf, log_text, program, prompt, attempt,
                   locals, fs, calls, attempts_data, success>>

\* the gate, and what it prints
S_Gate ==
    /\ program = "run_one_prompt, sys.stdout"
    /\ pc = "gate"
    /\ \E ok \in BOOLEAN :
         /\ success' = ok
         /\ IF ok
            THEN /\ print(<<"*** SUCCESS">>)
                 /\ UNCHANGED reasons
            ELSE /\ \E i \in DOMAIN batch_reasons :
                      reasons' = Append(reasons, batch_reasons[i])
                 /\ print(<<"failed">>)
    /\ pc' = "finally"
    /\ UNCHANGED <<sys_stdout, old_stdout, buf, log_text, program, prompt, attempt,
                   locals, result, fs, calls, attempts_data, bg_path, thumb_path>>

\* finally: log_text = buf.getvalue(); sys.stdout = old_stdout; an exception
\* that was not handled then leaves run_one_prompt
S_Finally ==
    /\ program = "run_one_prompt, sys.stdout"
    /\ pc = "finally"
    /\ log_text' = streams[buf]
    /\ sys_stdout' = old_stdout
    /\ pc' = IF result.status = "raised" THEN "done" ELSE "append"
    /\ UNCHANGED <<old_stdout, buf, streams>>
    /\ UNCHANGED <<program, prompt, attempt, locals, reasons, result, fs, calls,
                   batch_locals>>

\* attempts_data.append(...), "if success: break", the next iteration or
\* the return
S_Append ==
    /\ program = "run_one_prompt, sys.stdout"
    /\ pc = "append"
    /\ attempts_data' =
         Append(attempts_data,
                attempt_record(attempt, bg_path, thumb_path, success, reasons)
                  @@ [log |-> log_text])
    /\ IF ~success /\ more_runs(attempt)
       THEN /\ attempt' = attempt + 1
            /\ pc' = "redirect"
            /\ UNCHANGED result
       ELSE /\ attempt' = attempt
            /\ pc' = "done"
            /\ result' = batch_result(success, attempts_data')
    /\ UNCHANGED <<capture, program, prompt, locals, reasons, fs, calls, success,
                   bg_path, thumb_path>>

InitStdout ==
    /\ program = "run_one_prompt, sys.stdout"
    /\ prompt \in Prompts
    /\ fs = NoFiles
    /\ pc = "idle"
    /\ attempt = 0
    /\ plan = NoPlan /\ extra = None /\ bg = None /\ final_img = None
    /\ is_text_ok = FALSE /\ is_mobile_readable = FALSE
    /\ is_contrast_ok = FALSE /\ is_clean_geometry = FALSE
    /\ _result = <<>>
    /\ reasons = <<>>
    /\ result = NoResult
    /\ calls = <<>>
    /\ attempts_data = <<>> /\ success = FALSE
    /\ bg_path = None /\ thumb_path = None
    /\ sys_stdout \in {Console, CallerStream}
    /\ old_stdout = None /\ buf = None /\ log_text = <<>>
    /\ streams = [s \in {Console, CallerStream} \cup {StringIO[n] : n \in 1..3} |-> <<>>]

NextStdout ==
    S_Call \/ S_Redirect \/ S_Step \/ S_Gate \/ S_Finally \/ S_Append

SpecStdout == InitStdout /\ [][NextStdout]_vars

(***************************************************************************)
(* Properties.                                                             *)
(***************************************************************************)
\* the outcomes of the four checks of the current attempt, in gate order
Passed == <<is_text_ok, is_mobile_readable, is_contrast_ok, is_clean_geometry>>

Occurrences(seq, x) == Cardinality({i \in DOMAIN seq : seq[i] = x})

IndexOf(seq, x) == CHOOSE i \in DOMAIN seq : seq[i] = x

\* rs holds one entry for each failing check, none for a passing check, no
\* duplicates, in the order of labels
ExactReasons(rs, labels, passed) ==
    /\ \A i \in 1..4 : Occurrences(rs, labels[i]) = (IF passed[i] THEN 0 ELSE 1)
    /\ Len(rs) = Cardinality({i \in 1..4 : ~passed[i]})
    /\ \A j, k \in DOMAIN rs :
         j < k => IndexOf(labels, rs[j]) < IndexOf(labels, rs[k])

CallsOf(op) == SelectSeq(calls, LAMBDA c : c.op = op)

\* C1: at the gate, in generate and in run_one_prompt, the attempt is accepted
\* iff all four checks passed, and the reasons recorded are exactly the
\* entries of the failing checks, once each, in the fixed order (so turning
\* one passing check into a failing one makes the attempt fail and adds
\* exactly that check's entry).
C1_GateExact ==
    [][ pc = "gate" =>
          LET accepted == \A i \in 1..4 : Passed[i]
          IN  IF program = "app"
              THEN /\ accepted <=> result'.status = "success"
                   /\ ExactReasons(reasons', generate_reasons, Passed)
              ELSE LET e == attempts_data'[Len(attempts_data')]
                   IN  /\ Len(attempts_data') = Len(attempts_data) + 1
                       /\ accepted <=> e.success
                       /\ ExactReasons(e.reasons, batch_reasons, Passed)
      ]_vars

\* an attempt of generate failed on text_fidelity and contrast only
C1_Witness ==
    /\ program = "app"
    /\ pc = "decompose"
    /\ attempt = 1
    /\ reasons = <<generate_reasons[1], generate_reasons[3]>>

\* C2: generate returns at the first attempt k whose checks all pass, with
\* status "success", the composite that attempt wrote as url and attempts = k;
\* no step of a later attempt is executed.
C2_FirstPassReturns ==
    /\ [](program = "app" /\ pc = "done" /\ result.status = "success" =>
            /\ result.attempts = attempt + 1
            /\ result.attempts \in 1..3
            /\ \A i \in 1..4 : Passed[i]
            /\ result.url = latest_thumbnail
            /\ fs[result.url] = [Resize(Generated(attempt, 1, <<1280, 720>>), 1280, 720)
                                    EXCEPT !.text = Upper(plan.title),
                                           !.font = "ImageFont.load_default"]
            /\ \A i \in DOMAIN calls : calls[i].attempt < result.attempts
            /\ Len(CallsOf("decompose_prompt")) = result.attempts
            /\ Len(CallsOf("generate_background")) = result.attempts
            /\ Len(CallsOf("overlay_text")) = result.attempts
            /\ Len(CallsOf("check_visual_integrity")) = result.attempts)
    /\ [][program = "app" =>
            /\ (pc = "gate" /\ (\A i \in 1..4 : Passed[i]) =>
                  pc' = "done" /\ result' = [status |-> "success",
                                             url |-> final_img,
                                             attempts |-> attempt + 1])
            /\ (pc = "done" => calls' = <<>> /\ result'.status = "none")
       ]_vars

\* fail, fail, pass: generate succeeded at its third attempt
C2_Witness ==
    /\ program = "app"
    /\ pc = "done"
    /\ result.status = "success"
    /\ result.attempts = 3

\* C3: after three failing attempts generate returns the failure object, with
\* a non-empty failure_log and the fallback path; there is no fourth attempt.
C3_Exhaustion ==
    /\ [](program = "app" =>
            /\ attempt < 3
            /\ \A i \in DOMAIN calls : calls[i].attempt < 3
            /\ (result.status = "failed" =>
                  /\ pc = "done"
                  /\ result.error_type = "ConstraintViolation"
                  /\ result.failure_log # <<>>
                  /\ result.fallback_image = "outputs/fallback_solid_color.png"
                  /\ Len(CallsOf("decompose_prompt")) = 3
                  /\ Len(CallsOf("check_visual_integrity")) = 3))
    /\ [][program = "app" =>
            /\ (pc = "gate" /\ attempt = 2 /\ ~(\A i \in 1..4 : Passed[i]) =>
                  pc' = "fallback")
            /\ (pc = "fallback" => pc' = "done" /\ result'.status = "failed")
       ]_vars

\* generate returned the failure object
C3_Witness ==
    /\ program = "app"
    /\ pc = "done"
    /\ result.status = "failed"
    /\ Len(result.failure_log) = 4


\* C4: a call of generate always ends by returning the success object or the
\* failure object; no exception leaves generate.
C4_AlwaysStructured ==
    program = "app" /\ pc = "done" => result.status \in {"success", "failed"}

\* C5: in generate the k-th synthesis call of a request is the one of attempt
\* k-1 and receives retry_strategies[k-1]: none for the first, then the second
\* and the third entry, never skipped, repeated or out of order; the prompt
\* sent to the image model carries exactly that constraint.
C5_EscalationOrder ==
    program = "app" =>
      LET synth == CallsOf("generate_background")
          sent  == CallsOf("models.generate_content")
      IN  /\ Len(synth) <= 3
          /\ Len(sent) = Len(synth)
          /\ \A k \in DOMAIN synth :
               /\ synth[k].attempt = k - 1
               /\ synth[k].args[2] = retry_strategies[k]
               /\ sent[k].args[1] = synth[k].args[1]
               /\ IF k = 1
                  THEN synth[k].args[2] = None /\ Len(sent[k].args) = 1
                  ELSE Len(sent[k].args) = 2 /\ sent[k].args[2] = retry_strategies[k]

\* the third synthesis call of a request of generate has been made
C5_Witness ==
    /\ program = "app"
    /\ Len(CallsOf("generate_background")) = 3
    /\ pc = "overlay"

\* C6: when the audit call raises, check_visual_integrity returns the marker
\* and True and raises nothing; an attempt of generate whose other three
\* checks pass is then accepted.
C6_AuditFailsOpen ==
    [][program = "app" =>
         /\ (pc = "visual" /\ _result' = API_ERROR =>
               is_clean_geometry' /\ pc' = "gate" /\ result'.status = "none")
         /\ (pc = "gate" /\ _result = API_ERROR
               /\ is_text_ok /\ is_mobile_readable /\ is_contrast_ok =>
               pc' = "done" /\ result'.status = "success")
      ]_vars

\* generate accepted an attempt whose audit call had raised
C6_Witness ==
    /\ program = "app"
    /\ pc = "done"
    /\ result.status = "success"
    /\ _result = API_ERROR

\* C7: whenever generate has returned the failure object, the file at the
\* fallback path is a 1280x720 image, whatever the files were at the start.
C7_FallbackIs1280x720 ==
    program = "app" /\ result.status = "failed" =>
        IsImage(fs[fallback_path]) /\ fs[fallback_path].size = <<1280, 720>>

\* C8: the fallback file is written only by the exhaustion step of generate,
\* only when no file is there; a file present at the path is never changed.
C8_FallbackLazyOnce ==
    [][ /\ (fs[fallback_path] # Absent => fs'[fallback_path] = fs[fallback_path])
        /\ (fs'[fallback_path] # fs[fallback_path] =>
              /\ program = "app"
              /\ pc = "fallback"
              /\ attempt = max_retries - 1
              /\ fs[fallback_path] = Absent
              /\ fs'[fallback_path] = FallbackImage
              /\ result'.status = "failed")
        /\ (result'.status = "success" => fs'[fallback_path] = fs[fallback_path])
      ]_vars

\* generate was exhausted with a file already at the path, and left it as it was
C8_Witness ==
    /\ program = "app"
    /\ pc = "done"
    /\ result.status = "failed"
    /\ fs[fallback_path] = Foreign

\* C9: the failure_log generate returns is the reasons list of the last
\* attempt: the failing checks of that attempt, once each.
C9_LastAttemptReasons ==
    program = "app" /\ result.status = "failed" =>
        /\ attempt = 2
        /\ result.failure_log = reasons
        /\ ExactReasons(result.failure_log, generate_reasons, Passed)

\* exhaustion with a single failing check in the third attempt
C9_Witness ==
    /\ program = "app"
    /\ pc = "done"
    /\ result.status = "failed"
    /\ result.failure_log = <<generate_reasons[4]>>

\* the calls of attempt a, in order
CallsIn(a) == SelectSeq(calls, LAMBDA c : c.attempt = a)

\* C10: every attempt of either orchestrator begins with its own single call
\* of decompose_prompt, and the image prompt, title and mode that its
\* synthesis, overlay and text-recognition calls receive are those that call
\* returned.
C10_FreshDecomposition ==
    /\ \A i \in 1..(Len(calls) - 1) : calls[i].attempt <= calls[i + 1].attempt
    /\ (pc \notin {"idle", "decompose"} /\ result.status = "none" =>
          CallsIn(attempt) # <<>>)
    /\ \A a \in 0..2 :
         LET cs == CallsIn(a)
         IN  cs # <<>> =>
               /\ cs[1].op = "decompose_prompt"
               /\ cs[1].args = <<prompt>>
               /\ \A j \in 2..Len(cs) : cs[j].op # "decompose_prompt"
               /\ Len(cs) >= 2 =>
                    /\ cs[2].op = "decompose_prompt returned"
                    /\ cs[2].args \in {<<p.title, p.image_prompt, p.mode>> :
                                          p \in LLMPlans(prompt)}
                    /\ \A j \in 3..Len(cs) :
                         CASE cs[j].op = "generate_background" ->
                                  cs[j].args[1] = cs[2].args[2]
                           [] cs[j].op = "models.generate_content" ->
                                  cs[j].args[1] = cs[2].args[2]
                           [] cs[j].op = "overlay_text" ->
                                  cs[j].args[2] = cs[2].args[1] /\ cs[j].args[3] = cs[2].args[3]
                           [] cs[j].op = "verify_text_fidelity" ->
                                  cs[j].args[2] = cs[2].args[1]
                           [] cs[j].op = "verify_mobile_readability" ->
                                  cs[j].args[2] = cs[2].args[1]
                           [] OTHER -> cs[j].op # "decompose_prompt returned"

\* the second attempt's decomposition returned another plan than the first's,
\* and the second attempt has run its text-recognition checks
C10_Witness ==
    /\ program = "batch"
    /\ pc = "contrast"
    /\ attempt = 1
    /\ Len(CallsIn(0)) >= 2
    /\ CallsIn(0)[2].op = "decompose_prompt returned"
    /\ CallsIn(0)[2].args # CallsIn(1)[2].args

\* the steps of an attempt, by the engine or validator method called
StepOps ==
    << "decompose_prompt", "generate_background", "overlay_text",
       "verify_text_fidelity", "verify_mobile_readability", "check_contrast",
       "check_visual_integrity" >>

\* the methods called in attempt a, in order
StepsIn(a) ==
    LET cs == SelectSeq(CallsIn(a),
                        LAMBDA c : \E k \in DOMAIN StepOps : StepOps[k] = c.op)
    IN  [k \in DOMAIN cs |-> cs[k].op]

IsPrefix(s, t) == Len(s) <= Len(t) /\ s = SubSeq(t, 1, Len(s))

\* C11: within a request of generate the steps of an attempt run in the order
\* decompose, synthesize, composite, text fidelity, mobile readability,
\* contrast, audit, each at most once per attempt; an attempt starts only
\* after the attempt before it ran all its steps and the gate decided; no
\* request makes more than 3 calls of any step.
C11_Sequential ==
    /\ [](program = "app" =>
            /\ \A i \in DOMAIN calls : calls[i].attempt \in 0..2
            /\ \A i \in 1..(Len(calls) - 1) : calls[i].attempt <= calls[i + 1].attempt
            /\ \A a \in 0..2 : IsPrefix(StepsIn(a), StepOps)
            /\ \A a \in 1..2 : CallsIn(a) # <<>> => StepsIn(a - 1) = StepOps
            /\ \A k \in DOMAIN StepOps : Len(CallsOf(StepOps[k])) <= 3)
    /\ [][program = "app" /\ attempt' > attempt =>
            /\ pc = "gate"
            /\ pc' = "decompose"
            /\ attempt' = attempt + 1
            /\ calls' = calls
            /\ StepsIn(attempt) = StepOps
       ]_vars

\* the third attempt of a request of generate has run all seven steps
C11_Witness ==
    /\ program = "app"
    /\ pc = "gate"
    /\ attempt = 2
    /\ StepsIn(0) = StepOps /\ StepsIn(1) = StepOps /\ StepsIn(2) = StepOps

\* decompose_prompt has returned its plan
DecomposeDone ==
    program = "decompose_prompt" /\ pc = "done" /\ result.status = "returned"

\* the non-empty lines of the text model's message content, stripped
ModelLines == Lines(Strip(calls[1].content))

\* C12: whatever the prompt and the text model's answer, the title of the
\* returned plan has at most 5 white-space separated words and the mode is
\* "light" or "dark"; it is "dark" when there is no third line and when the
\* third line, lower-cased and without its periods, is neither word.
C12_TitleAndMode ==
    DecomposeDone =>
        /\ Len(Words(plan.title)) <= 5
        /\ plan.mode \in {light, dark}
        /\ (Len(ModelLines) < 3 => plan.mode = dark)
        /\ (Len(ModelLines) >= 3
              /\ StripChar(Lower(ModelLines[3]), ".") \notin {light, dark}
              => plan.mode = dark)

\* the model wrote a title of more than 5 words and an unknown mode word
C12_Witness ==
    /\ DecomposeDone
    /\ Len(ModelLines) >= 3
    /\ Len(Words(ModelLines[1])) > 5
    /\ Lower(ModelLines[3]) \notin {light, dark}
    /\ plan.mode = dark

\* C13: whatever the prompt (the empty and the blank prompt included) and the
\* text model's answer, the title of the returned plan is not empty.
C13_TitleNonEmpty ==
    DecomposeDone => plan.title # <<>>

\* C14, as stated: when the model's answer has no non-empty line the title is
\* the first 40 characters of the prompt; otherwise it is the first 5 words
\* of the model's first line.
C14_TitleSource ==
    DecomposeDone =>
        IF ModelLines = <<>>
        THEN plan.title = Take(prompt, 40)
        ELSE plan.title = Join(Take(Words(ModelLines[1]), 5), <<" ">>)

\* C14, amended: when the model's answer has no non-empty line the title is
\* the first 5 words of the prompt joined by single spaces, and the first 40
\* characters of the prompt only if the prompt has no word; otherwise it is
\* the first 5 words of the model's first non-empty line with every
\* "Title: " removed from it.
C14_TitleSourceAmended ==
    DecomposeDone =>
        IF ModelLines = <<>>
        THEN IF Words(prompt) = <<>>
             THEN plan.title = Take(prompt, 40)
             ELSE plan.title = Join(Take(Words(prompt), 5), <<" ">>)
        ELSE plan.title =
                Join(Take(Words(Replace(ModelLines[1], TitlePrefix, <<>>)), 5), <<" ">>)

\* an empty answer to a prompt of more than 5 words and 40 characters: the
\* title is not the prompt's first 40 characters
C14_Witness ==
    /\ DecomposeDone
    /\ ModelLines = <<>>
    /\ Len(Words(prompt)) > 5
    /\ Len(prompt) > 40
    /\ plan.title # Take(prompt, 40)

\* C15: the returned image prompt is the user prompt exactly when the model's
\* second non-empty line is absent, shorter than 15 characters, or "dark" or
\* "light" in any case once its trailing periods are removed; in every other
\* case it is that second line, unchanged.
C15_ImagePromptSubstitution ==
    DecomposeDone =>
        LET substituted ==
                \/ Len(ModelLines) < 2
                \/ Len(ModelLines[2]) < 15
                \/ RStripChar(Lower(ModelLines[2]), ".") \in {dark, light}
        IN  IF substituted THEN plan.image_prompt = prompt
                           ELSE plan.image_prompt = ModelLines[2]

\* a second line of 15 characters, "dark" followed by periods, was replaced
\* by the user prompt
C15_Witness ==
    /\ DecomposeDone
    /\ Len(ModelLines) >= 2
    /\ Len(ModelLines[2]) = 15
    /\ RStripChar(ModelLines[2], ".") = dark
    /\ plan.image_prompt = prompt
    /\ prompt # ModelLines[2]

\* C16: whatever the prompt and the text model's answer, the image prompt of
\* the returned plan is not empty and has at least 15 characters.
C16_ImagePromptLongEnough ==
    DecomposeDone => plan.image_prompt # <<>> /\ Len(plan.image_prompt) >= 15

\* C17: in generate, when decompose_prompt raises, or generate_background
\* raises (the request failing, or the answer holding no content or no
\* image), the exception leaves generate at once: the request ends with it,
\* the adapter has been called once in the attempt, and no step of that or of
\* a later attempt follows.
C17_AdapterFailureFatal ==
    /\ [][program = "app" =>
            /\ (pc = "decompose" /\ pc' # "synthesize" =>
                  /\ result' = Raised("APIConnectionError")
                  /\ pc' = "done"
                  /\ attempt' = attempt
                  /\ calls' = Append(calls, DecomposeCall(prompt)))
            /\ (pc = "synthesize" /\ pc' # "overlay" =>
                  /\ result'.status = "raised"
                  /\ result'.exception \in {"APIConnectionError", NoContent, NoImage}
                  /\ pc' = "done"
                  /\ attempt' = attempt
                  /\ Len(calls') = Len(calls) + 2
                  /\ calls'[Len(calls) + 1].op = "generate_background")
            /\ (result.status = "raised" =>
                  pc' = "decompose" /\ attempt' = 0 /\ calls' = <<>>
                  /\ result'.status = "none")
       ]_vars
    /\ [](program = "app" /\ result.status = "raised" =>
            /\ pc = "done"
            /\ \A i \in DOMAIN calls : calls[i].attempt <= attempt
            /\ Occurrences(StepsIn(attempt), "decompose_prompt") = 1
            /\ Occurrences(StepsIn(attempt), "generate_background") <= 1)

\* the second attempt's answer of the image model held no image: the request
\* ended there, with the exception
C17_Witness ==
    /\ program = "app"
    /\ pc = "done"
    /\ attempt = 1
    /\ result = Raised(NoImage)
    /\ StepsIn(1) = <<"decompose_prompt", "generate_background">>

\* the messages of the exceptions the steps raise
ExceptionMessages == {"APIConnectionError", NoContent, NoImage, "OSError", "OCRError"}

\* where run_one_prompt goes from a step that returns
StepReturnsTo(at) ==
    CASE at = "decompose"     -> "synthesize"
      [] at = "synthesize"    -> "overlay"
      [] at = "overlay"       -> "copy"
      [] at = "text_fidelity" -> "mobile"
      [] at = "mobile"        -> "contrast"

\* how many engine and validator methods the log holds calls of
StepCount(cs) ==
    Len(SelectSeq(cs, LAMBDA c : \E k \in DOMAIN StepOps : StepOps[k] = c.op))

\* C18: in run_one_prompt, when a step of an attempt raises, no further step
\* of the attempt runs, the attempt is recorded with success = False and the
\* exception's message in its reasons, and the loop goes on as after a failed
\* gate: to the next attempt while fewer than 3 are recorded, else to the
\* return of (False, the 3 recorded attempts).
C18_RaisingAttempt ==
    [][program = "batch" =>
         LET e == attempts_data'[Len(attempts_data')]
             goes_on ==
                 /\ Len(attempts_data') = Len(attempts_data) + 1
                 /\ e.attempt = attempt + 1
                 /\ e.success = FALSE
                 /\ IF attempt < 2
                    THEN /\ pc' = "decompose"
                         /\ attempt' = attempt + 1
                         /\ result'.status = "none"
                    ELSE /\ pc' = "done"
                         /\ result' = [status |-> "returned", final_success |-> FALSE,
                                       attempts |-> attempts_data']
                         /\ Len(attempts_data') = 3
         IN  /\ (pc \in {"decompose", "synthesize", "overlay", "text_fidelity", "mobile"}
                   /\ pc' # StepReturnsTo(pc) =>
                     /\ goes_on
                     /\ e.reasons # <<>>
                     /\ e.reasons[Len(e.reasons)] \in ExceptionMessages
                     /\ StepCount(calls') = StepCount(calls) + 1)
             /\ (pc = "gate" /\ ~(\A i \in 1..4 : Passed[i]) =>
                     goes_on /\ calls' = calls)
      ]_vars

\* three attempts of run_one_prompt ended in an exception, each in another step
C18_Witness ==
    /\ program = "batch"
    /\ pc = "done"
    /\ result.status = "returned"
    /\ result.final_success = FALSE
    /\ Len(result.attempts) = 3
    /\ attempts_data[1].reasons = <<"APIConnectionError">>
    /\ attempts_data[2].reasons = <<NoContent>>
    /\ attempts_data[3].reasons = <<"OCRError">>
    /\ StepsIn(2) = SubSeq(StepOps, 1, 4)

\* C19: generate_background raises, and leaves every file as it was, when
\* the answer has no candidates, when its first candidate has no parts, and
\* when no part of the first candidate carries an image; otherwise it writes
\* the first image of the first candidate, resized to 1280x720, to
\* temp_bg.png, replacing what was there, and returns that path.
C19_BackgroundWritten ==
    [][program = "generate_background" /\ pc = "respond" /\ Len(calls') > Len(calls) =>
         LET response == calls'[Len(calls')].response
             images   == {i \in DOMAIN response[1] :
                             response[1][i].inline_data # NoInline}
         IN  IF response = <<>> \/ response[1] = <<>> \/ images = {}
             THEN /\ result'.status = "raised"
                  /\ pc' = "done"
                  /\ fs' = fs
             ELSE \E i \in images :
                    /\ \A j \in images : i <= j
                    /\ fs' = [fs EXCEPT ![temp_bg] =
                                 [response[1][i].inline_data EXCEPT !.size = <<1280, 720>>]]
                    /\ IsImage(fs'[temp_bg])
                    /\ result' = [status |-> "returned", value |-> "temp_bg.png"]
      ]_vars

\* the second call replaced the file of the first, and the third call raised
\* on an answer without an image and left the file of the second
C19_Witness ==
    /\ program = "generate_background"
    /\ pc = "done"
    /\ attempt = 3
    /\ result = Raised(NoImage)
    /\ fs["temp_bg.png"] = Generated(1, 1, <<1280, 720>>)
    /\ calls[Len(calls)].response = << <<TextPart>> >>

\* the calls i and j had the same background image, title and mode, and
\* resolved the same font
SameOverlayInputs(i, j) ==
    /\ calls[i].background = calls[j].background
    /\ calls[i].args[2] = calls[j].args[2]
    /\ calls[i].args[3] = calls[j].args[3]
    /\ calls[i].font = calls[j].font

\* C20: two calls of overlay_text on the same background image, title and
\* mode that resolve the same font write the same composite, whatever calls
\* were made between them and whatever they left in the working directory;
\* the composite at latest_thumbnail.png is the one of the last call.
C20_OverlayRepeatable ==
    program = "overlay_text" =>
        /\ \A i, j \in DOMAIN calls :
              SameOverlayInputs(i, j) => calls[i].composite = calls[j].composite
        /\ (calls # <<>> => fs[latest_thumbnail] = calls[Len(calls)].composite)

\* the third call repeated the first after a call with another title on the
\* other background
C20_Witness ==
    /\ program = "overlay_text"
    /\ Len(calls) = 3
    /\ SameOverlayInputs(1, 3)
    /\ calls[2].args[1] # calls[1].args[1]
    /\ calls[2].args[2] # calls[1].args[2]
    /\ calls[2].composite # calls[1].composite
    /\ calls[3].composite = calls[1].composite

\* C21: run_one_prompt returns (final_success, attempts) with 1 to 3 entries
\* numbered 1..n; only the last entry may be a success and final_success is
\* its flag; a successful entry has no reasons and a failed one has some; a
\* run of fewer than 3 entries ended in a success.
C21_ReturnShape ==
    program = "batch" /\ result.status = "returned" =>
        LET a == result.attempts
            n == Len(a)
        IN  /\ pc = "done"
            /\ a = attempts_data
            /\ n \in 1..3
            /\ \A i \in 1..n : a[i].attempt = i
            /\ \A i \in 1..(n - 1) : ~a[i].success
            /\ result.final_success = a[n].success
            /\ \A i \in 1..n : a[i].success <=> a[i].reasons = <<>>
            /\ (n < 3 => a[n].success)

\* a run of two attempts: the first raised in synthesis, the second passed
C21_Witness ==
    /\ program = "batch"
    /\ result.status = "returned"
    /\ Len(result.attempts) = 2
    /\ result.attempts[1].reasons = <<NoImage>>
    /\ result.final_success

\* the title attempt a's decomposition returned
TitleIn(a) == CallsIn(a)[2].args[1]

\* attempt a got past compositing: its text-fidelity check was called
Composited(a) == Len(StepsIn(a)) >= 4

AnswerText == calls[Len(calls)].text

\* the letters p, a, s, s, in either case, stand next to each other in text
NamesPass(text) ==
    \E i \in 1..(Len(text) - 3) :
        /\ text[i] \in {"P", "p"}
        /\ text[i + 1] \in {"A", "a"}
        /\ text[i + 2] \in {"S", "s"}
        /\ text[i + 3] \in {"S", "s"}

AppRunning == result.status = "none"

\* run_one_prompt has not returned: no "break", and the range is not used up
BatchRunning ==
    attempts_data = <<>> \/ (~success /\ more_runs(Len(attempts_data) - 1))

\* the checks (by their place in CheckNames) that the list rs names
ChecksNamed(rs, labels) ==
    {i \in 1..4 : \E k \in DOMAIN rs : rs[k] = labels[i]}

\* C24: given the same outcomes of the checks in every attempt, and no step
\* raising, generate and run_one_prompt end together, after the same number
\* of attempts: run_one_prompt returns True with n records iff generate
\* returns "success" with attempts = n, and False with 3 records iff generate
\* returns "failed"; then the failing checks of the last record are the
\* checks that failure_log names.
C24_OrchestratorsAgree ==
    program = "generate and run_one_prompt" =>
        LET n == Len(attempts_data)
        IN  /\ (pc = "checks" => AppRunning /\ BatchRunning /\ attempt = n)
            /\ (pc = "gate" => AppRunning /\ BatchRunning /\ attempt = n)
            /\ (pc = "done" =>
                  /\ ~AppRunning /\ ~BatchRunning
                  /\ \A k \in 1..3 :
                       (success /\ n = k)
                         <=> (result.status = "success" /\ result.attempts = k)
                  /\ (~success /\ n = 3) <=> result.status = "failed"
                  /\ (result.status = "failed" =>
                        /\ ChecksNamed(attempts_data[n].reasons, batch_reasons)
                             = ChecksNamed(result.failure_log, generate_reasons)
                        /\ ChecksNamed(result.failure_log, generate_reasons)
                             = {i \in 1..4 : ~Passed[i]}))

\* both gave up after three attempts, the last failing two of the checks
C24_Witness ==
    /\ program = "generate and run_one_prompt"
    /\ pc = "done"
    /\ result.status = "failed"
    /\ ~success
    /\ Len(attempts_data) = 3
    /\ attempts_data[1].reasons = <<"contrast">>
    /\ attempts_data[3].reasons = <<"text_fidelity", "visual_integrity">>
    /\ result.failure_log = <<generate_reasons[1], generate_reasons[4]>>

\* the composite that attempt a of request r writes
CompositeOf(r, a) ==
    [Answer(r, a) EXCEPT !.text = Upper(prompt[r]), !.font = "ImageFont.load_default"]

\* C25: on one event loop the steps of two /generate requests never
\* interleave: what a request does, from the start of its handler to its
\* return, is one unbroken stretch of the log; and in every attempt the
\* three composite checks open the composite, and the audit is sent the
\* background, that this attempt of this request wrote.
C25_NoInterleaving ==
    program = "event loop" =>
        /\ Cardinality(Started) <= 1
        /\ \A i, k \in DOMAIN calls :
             (i < k /\ calls[i].request = calls[k].request)
               => \A j \in i..k : calls[j].request = calls[i].request
        /\ \A i \in DOMAIN calls :
             LET c == calls[i]
             IN  /\ (c.op \in {"verify_text_fidelity", "verify_mobile_readability",
                               "check_contrast"}
                       => c.file = CompositeOf(c.request, c.attempt))
                 /\ (c.op \in {"check_visual_integrity", "overlay_text"}
                       => c.file = Answer(c.request, c.attempt))

\* both requests, with the same prompt, were handled to success, request 2
\* before request 1, and each got to the audit of its second attempt
C25_Witness ==
    /\ program = "event loop"
    /\ \A r \in Requests : pc[r] = "done" /\ result[r].status = "success"
    /\ \E i, k \in DOMAIN calls :
         /\ calls[i].op = "check_visual_integrity" /\ calls[i].request = 2
         /\ calls[i].attempt = 1
         /\ calls[k].op = "check_visual_integrity" /\ calls[k].request = 1
         /\ calls[k].attempt = 1
         /\ i < k
    /\ prompt[1] = prompt[2]

\* the stream that was sys.stdout when run_one_prompt was called
StdoutAtCall == calls[1].stdout

\* C26: in run_one_prompt sys.stdout is the attempt's own buffer from the
\* head of the iteration to its finally clause and the stream of before the
\* call everywhere else: after every attempt, whether it passed, failed the
\* gate or raised in any step, and after the return.  The log of every
\* record is what was printed during that attempt and nothing else, and
\* nothing printed during the run reaches the stream of before the call.
C26_StdoutRestored ==
    program = "run_one_prompt, sys.stdout" /\ pc # "idle" =>
        /\ (pc \in {"redirect", "append", "done"} => sys_stdout = StdoutAtCall)
        /\ (pc \notin {"redirect", "append", "done"} =>
              /\ sys_stdout = buf
              /\ buf = StringIO[attempt + 1]
              /\ old_stdout = StdoutAtCall)
        /\ \A s \in {Console, CallerStream} : streams[s] = <<>>
        /\ \A i \in DOMAIN attempts_data :
             LET log == attempts_data[i].log
             IN  /\ log # <<>>
                 /\ \A k \in DOMAIN log : log[k].attempt + 1 = attempts_data[i].attempt
                 /\ log[1].text = "ATTEMPT"
                 /\ log = streams[StringIO[i]]

\* a run called with the caller's own stream installed: the first attempt
\* raised in its first step, the second failed the gate, the third passed,
\* and sys.stdout is the caller's stream again
C26_Witness ==
    /\ program = "run_one_prompt, sys.stdout"
    /\ result.status = "returned"
    /\ result.final_success
    /\ Len(attempts_data) = 3
    /\ attempts_data[1].reasons = <<"decompose">>
    /\ attempts_data[1].log[Len(attempts_data[1].log)].text = "ERROR: "
    /\ attempts_data[2].log[Len(attempts_data[2].log)].text = "failed"
    /\ StdoutAtCall = CallerStream
    /\ sys_stdout = CallerStream

\* the calls i and j of overlay_text differ in the mode and in nothing else
DifferInModeOnly(i, j) ==
    /\ calls[i].background = calls[j].background
    /\ calls[i].args[2] = calls[j].args[2]
    /\ calls[i].font = calls[j].font
    /\ calls[i].args[3] # calls[j].args[3]

\* C27: the composite that overlay_text writes does not depend on the mode:
\* two calls with the same background image and title (and the same fonts
\* installed), one with "light" and one with "dark", write the same
\* composite, and no composite carries anything but the background, the
\* upper-cased title and the font; so the file handed to the checks of the
\* gate is the same for either mode.
C27_ModeIgnored ==
    program = "overlay_text" =>
        \A i \in DOMAIN calls :
            /\ calls[i].args[3] \in {"light", "dark"}
            /\ calls[i].composite.filter = calls[i].background.filter
            /\ \A j \in DOMAIN calls :
                 DifferInModeOnly(i, j) => calls[i].composite = calls[j].composite

\* a "dark" call and then a "light" call on the same background and title,
\* with the same font, wrote the same composite
C27_Witness ==
    /\ program = "overlay_text"
    /\ Len(calls) >= 2
    /\ calls[1].args = <<temp_bg, "Machines Beat Humans", "dark">>
    /\ calls[2].args = <<temp_bg, "Machines Beat Humans", "light">>
    /\ calls[1].font = calls[2].font
    /\ calls[1].composite = calls[2].composite
    /\ calls[2].composite.text = "MACHINES BEAT HUMANS"
    /\ fs[latest_thumbnail] = calls[2].composite

====
